---- MODULE Spec2Model ----
(***************************************************************************)
(* wildEpiOmics: the static-site build (build.js and its variants          *)
(* part_000 / part_001 / part_002) and the client-side script (script.js). *)
(*                                                                         *)
(* The build is one async top-level script.  Every action below is one run *)
(* of the event loop: from the arrival of an HTTP response (or a timer) to *)
(* the next await.  HTTP answers are chosen by the environment.            *)
(***************************************************************************)
EXTENDS Integers, Sequences, FiniteSets, TLC

\* ------------------------------------------------------------------ bounds
MaxEntries == 2
MaxLineage == 3
MaxBody == 2

\* ------------------------------------------------------- JavaScript values
Null == "<null>"
Absent == "<undefined>"

Falsy(x) == x \in {Null, Absent, ""}

\* a || b on string-or-null values
JsOr(a, b) == IF Falsy(a) THEN b ELSE a

\* (mutant) a null value of the source leaves the target's value in place
ObjectAssignNonNull(target, source) ==
    [key \in DOMAIN target \cup DOMAIN source |->
        IF key \in DOMAIN source /\ (source[key] # Null \/ key \notin DOMAIN target)
        THEN source[key] ELSE target[key]]

\* Object.assign(target, source): every own key of source is written.
ObjectAssign(target, source) == source @@ target

RECURSIVE SeqsUpTo(_, _)
SeqsUpTo(S, n) ==
    IF n = 0 THEN {<<>>}
    ELSE LET shorter == SeqsUpTo(S, n - 1)
         IN shorter \cup {Append(s, x) : s \in {t \in shorter : Len(t) = n - 1}, x \in S}

\* ----------------------------------------------- text as character sequences
IsSpace(c) == c = " "

RECURSIVE TrimStart(_)
TrimStart(s) ==
    IF s # <<>> /\ IsSpace(Head(s)) THEN TrimStart(Tail(s)) ELSE s

RECURSIVE TrimEnd(_)
TrimEnd(s) ==
    IF s # <<>> /\ IsSpace(s[Len(s)]) THEN TrimEnd(SubSeq(s, 1, Len(s) - 1)) ELSE s

\* String.prototype.trim
Trim(s) == TrimEnd(TrimStart(s))

\* bib.startsWith("<")
StartsWithLt(s) == s # <<>> /\ Head(s) = "<"

\* ------------------------------------------------------------ study entries
Variants == {"build.js", "part_001", "part_002"}

TaxIds == {1, 2}
Dois == {"d1", "d2"}

\* The keys every variant of enrichTaxonomy may write, and the ones the data
\* schema lists as written by hand.
DerivedKeys == {"species", "order", "class", "common_name", "image", "source"}
ManualKeys == {"doi", "taxid", "individuals", "data_url", "method", "tissue", "notes"}

\* One parsed data file.  hand = TRUE: the file also carries hand-written
\* values for the derived keys and a free-text note, here one with "$$" in it.
FileEntry(doi, taxid, hand) ==
    [doi |-> doi, taxid |-> taxid, individuals |-> "12", data_url |-> "url",
     method |-> "RRBS", tissue |-> "blood",
     notes |-> IF hand THEN "5 $$ each" ELSE Absent,
     species |-> IF hand THEN "handSpecies" ELSE Absent,
     order |-> IF hand THEN "handOrder" ELSE Absent,
     class |-> IF hand THEN "handClass" ELSE Absent,
     common_name |-> IF hand THEN "handCommon" ELSE Absent,
     image |-> IF hand THEN "handImage" ELSE Absent,
     source |-> IF hand THEN "handSource" ELSE Absent]

\* The data files the specifications draw from: a full record with
\* hand-written derived values, a second taxon with a second DOI, a record
\* without a taxid that shares the first DOI and has hand-written derived
\* values, and a record without a DOI.
FileEntries ==
    {FileEntry("d1", 1, TRUE), FileEntry("d2", 2, FALSE),
     FileEntry("d1", 0, TRUE), FileEntry(Absent, 1, FALSE)}

\* What a data file whose document is empty or the JSON text null parses to.
NullEntry == [null |-> TRUE]

\* Reading a property of e does not throw: e is neither null nor undefined.
IsObject(e) == "null" \notin DOMAIN e

\* entry.taxid / entry.doi used as a condition
TruthyTaxid(e) == e.taxid # 0
TruthyDoi(e) == ~Falsy(e.doi)

\* ------------------------------------------------------- taxonomy services
\* The NCBI nodes of the lineage ancestors (id -> rank, organism_name).
AncIds == {5, 20, 21, 23}

AncNode(id) ==
    CASE id = 5 -> [rank |-> "CLASS", organism_name |-> "Lowclass"]
      [] id = 20 -> [rank |-> "CLASS", organism_name |-> "Mammalia"]
      [] id = 21 -> [rank |-> "ORDER", organism_name |-> "Primates"]
      [] id = 23 -> [rank |-> "CLASS", organism_name |-> "Aves"]

\* null, as returned for a failed or empty lookup
NoNode == [rank |-> Null, organism_name |-> Null]

\* (ln.rank || '').toLowerCase()
LowerRank(r) ==
    CASE r = "CLASS" -> "class"
      [] r = "ORDER" -> "order"
      [] OTHER -> ""

\* The GBIF classification arrays a match may carry.
GbifNode(r, n) == [rank |-> r, name |-> n]
GbifClassifications ==
    {<<>>,
     <<GbifNode("CLASS", "GbifClass")>>,
     <<GbifNode("CLASS", Absent)>>,
     <<GbifNode("ORDER", "GbifOrder")>>,
     <<GbifNode("CLASS", "GbifClass"), GbifNode("ORDER", "GbifOrder")>>}

\* ---------------------------------------------------------- citation services
BodyChars == {" ", "<", "b"}

\* CSL-JSON documents doi.org may answer with (null: the body "null").
CslDoc(doi, title, author) == [DOI |-> doi, title |-> title, author |-> author]
CslDocs ==
    {CslDoc(<<"1", ".", "/", "x">>, "Title", <<[family |-> "Fam", given |-> "Giv"]>>),
     CslDoc(<<>>, Absent, <<>>)}

\* ------------------------------------------------------------------- state
VARIABLES
    variant,       \* which build script runs
    env,           \* what the external services hold / may answer
    files,         \* the parsed contents of data/, in directory-listing order
    data,          \* const data = readAllData()
    pc,            \* position of the top-level script
    k,             \* index of the entry the current for-loop is at
    est,           \* position inside enrichTaxonomy / fetchBibtex
    out,           \* enrichTaxonomy's out object
    li,            \* lineage loop index i (0-based, as in the source)
    att,           \* fetchTaxonMinimal / fetchGBIFClassification attempt i
    found,         \* foundClass / foundOrder, and where each came from
    linRes,        \* build.js: the settled lineage promises
    inflight,      \* HTTP requests issued and not yet answered
    bibMap,        \* buildBibtexMap's map
    publicBibtex,  \* public/bibtex.json
    distHtml,      \* window.__DATA__ embedded in dist/index.html
    distBibtex,    \* dist/public/bibtex.json
    events,        \* history: the steps of the script, in order
    enrichLog,     \* history: entry index -> what enrichTaxonomy returned
    taxReqs,       \* history: <<entry index, service, id>> of taxonomy requests
    bibReqs,       \* history: the citation requests, in order of issue
    calls,         \* history: entry index -> the fetchBibtex call made for it
    page           \* script.js: the page open in the browser (entries, filter
                   \* controls, rendered list, selected, BibTeX map, downloads)

taxVars == <<est, out, li, att, found, linRes>>
fileVars == <<publicBibtex, distHtml, distBibtex>>
histVars == <<events, enrichLog, taxReqs, bibReqs, calls>>
buildVars == <<variant, env, files, data, pc, k, taxVars, inflight, bibMap, fileVars, histVars>>
vars == <<buildVars, page>>

\* A file of the output tree: missing, or written with some content.
NoFile == [exists |-> FALSE, content |-> <<>>]
File(c) == [exists |-> TRUE, content |-> c]
NoCall ==
    [idx |-> 0, doi |-> Absent, crossref |-> [err |-> TRUE, status |-> 0, body |-> <<>>],
     cslAsked |-> FALSE,
     csl |-> [kind |-> "none", doc |-> CslDoc(<<>>, Absent, <<>>)],
     settled |-> FALSE, result |-> <<>>, accept |-> Absent]
\* foundClass / foundOrder; classBy / orderBy: the service each came from;
\* ncbiClass / ncbiOrder: what the NCBI pass had found when it ended.
NoFound ==
    [class |-> Null, order |-> Null, classBy |-> "none", orderBy |-> "none",
     node |-> FALSE, walked |-> FALSE, ncbiClass |-> Null, ncbiOrder |-> Null,
     timer |-> 0]
Pending == [rank |-> "<pending>", organism_name |-> Null]

Req(svc, idx, id, slot) == [svc |-> svc, idx |-> idx, id |-> id, slot |-> slot]

\* No page is open while the build runs.
NoPage ==
    [entries |-> <<>>, fMethod |-> {}, fOrder |-> {}, fClass |-> {}, fTissue |-> {},
     fMinInd |-> <<>>, fSpecies |-> <<>>, list |-> <<>>, rendered |-> FALSE,
     checked |-> <<>>, selected |-> <<>>, bibMapPromise |-> "pending", served |-> <<>>,
     waiting |-> 0, clicks |-> 0, ran |-> 0, downloads |-> <<>>]

\* The state right after the imports and constants, before readAllData().
InitCommon ==
    /\ variant \in Variants
    /\ est = "idle"
    /\ out = <<>>
    /\ li = 0
    /\ att = 0
    /\ found = NoFound
    /\ linRes = <<>>
    /\ inflight = {}
    /\ publicBibtex = NoFile
    /\ distHtml = NoFile
    /\ distBibtex = NoFile
    /\ enrichLog = <<>>
    /\ taxReqs = {}
    /\ bibReqs = <<>>
    /\ calls = NoCall

\* The services as the whole-build specification sees them: two taxa with
\* short lineages, and a handful of Crossref bodies.
BuildEnv ==
    [lineage |-> (1 :> <<20, 21, 23>>) @@ (2 :> <<>>),
     name |-> (1 :> "Sp1") @@ (2 :> Absent),
     common |-> (1 :> "vernacular1") @@ (2 :> "vernacular2"),
     gbif |-> {<<GbifNode("CLASS", "GbifClass"), GbifNode("ORDER", "GbifOrder")>>},
     bodies |-> {<<"<">>, <<" ", "b">>},
     statuses |-> {200},
     csl |-> {CslDoc(<<"1", ".", "/", "x">>, "Title", <<[family |-> "Fam", given |-> "Giv"]>>)}]

Init ==
    /\ InitCommon
    /\ page = NoPage
    /\ env = BuildEnv
    /\ files \in SeqsUpTo(FileEntries, MaxEntries)
    /\ data = <<>>
    /\ pc = "load"
    /\ k = 0
    /\ bibMap = <<>>
    /\ events = <<>>

Event(e, idx) == [e |-> e, idx |-> idx]

\* ------------------------------------------------------ step 1: readAllData
\* Every file of data/ parsed and pushed, in listing order.
ReadAllData ==
    /\ pc = "load"
    /\ data' = files
    /\ pc' = "enrich"
    /\ k' = 1
    /\ events' = Append(events, Event("load", 0))
    /\ UNCHANGED <<page, variant, env, files, taxVars, inflight, bibMap, fileVars,
                   enrichLog, taxReqs, bibReqs, calls>>

\* --------------------------------------------------- step 2: enrichTaxonomy
\* const out = {...}: the keys differ between the variants.
OutInit(v) ==
    CASE v = "build.js" ->
           [species |-> Null, order |-> Null, class |-> Null, common_name |-> Null,
            image |-> Null]
      [] v = "part_001" ->
           [species |-> Null, order |-> Null, class |-> Null, common_name |-> Null,
            source |-> "ncbi"]
      [] v = "part_002" ->
           [species |-> Null, order |-> Null, class |-> Null, common_name |-> Null]

\* The taxonomy node NCBI holds for an id.
TaxonNode(id) ==
    IF id \in AncIds
    THEN [rank |-> AncNode(id).rank, organism_name |-> AncNode(id).organism_name,
          genbank_common_name |-> Absent, common_name |-> Absent]
    ELSE [rank |-> "SPECIES", organism_name |-> env.name[id],
          genbank_common_name |-> Absent, common_name |-> env.common[id]]

\* out.species = ...; out.common_name = ...
WithSpecies(o, node) ==
    [o EXCEPT !.species = JsOr(node.organism_name, Null),
              !.common_name = JsOr(JsOr(node.genbank_common_name, node.common_name), Null)]

\* (mutant) the returned object is assigned to the first entry of the list
ReturnOutToFirst(o, f, lin) ==
    /\ data' = [data EXCEPT ![1] = ObjectAssign(@, o)]
    /\ enrichLog' = (k :> [taxid |-> data[k].taxid, out |-> o, found |-> f, lin |-> lin])
                        @@ enrichLog
    /\ k' = k + 1
    /\ est' = "idle"
    /\ out' = <<>>
    /\ li' = 0
    /\ att' = 0
    /\ found' = NoFound
    /\ linRes' = <<>>

\* enrichTaxonomy returned o: Object.assign(entry, extra), next loop iteration.
ReturnOut(o, f, lin) ==
    /\ data' = [data EXCEPT ![k] = ObjectAssign(@, o)]
    /\ enrichLog' = (k :> [taxid |-> data[k].taxid, out |-> o, found |-> f, lin |-> lin])
                        @@ enrichLog
    /\ k' = k + 1
    /\ est' = "idle"
    /\ out' = <<>>
    /\ li' = 0
    /\ att' = 0
    /\ found' = NoFound
    /\ linRes' = <<>>

\* for (const entry of data): an entry without a truthy taxid is passed over.
EnrichSkip ==
    /\ pc = "enrich" /\ est = "idle" /\ k <= Len(data)
    /\ IsObject(data[k])
    /\ ~TruthyTaxid(data[k])
    /\ k' = k + 1
    /\ events' = Append(events, Event("skipTaxonomy", k))
    /\ UNCHANGED <<page, variant, env, files, data, pc, taxVars, inflight, bibMap, fileVars,
                   enrichLog, taxReqs, bibReqs, calls>>

\* enrichTaxonomy(entry.taxid) up to its first await: the main taxon request.
EnrichStart ==
    /\ pc = "enrich" /\ est = "idle" /\ k <= Len(data)
    /\ IsObject(data[k])
    /\ TruthyTaxid(data[k])
    /\ out' = OutInit(variant)
    /\ est' = "main"
    /\ att' = 0
    /\ inflight' = {Req("ncbi", k, data[k].taxid, 0)}
    /\ taxReqs' = taxReqs \cup {<<k, "ncbi", data[k].taxid>>}
    /\ events' = Append(events, Event("enrich", k))
    /\ UNCHANGED <<page, variant, env, files, data, pc, k, li, found, linRes, bibMap, fileVars,
                   enrichLog, bibReqs, calls>>

\* build.js, "3. Choose deepest ORDER and CLASS (last in lineage)".
RECURSIVE ChooseDeepest(_, _)
ChooseDeepest(o, taxa) ==
    IF taxa = <<>> THEN o
    ELSE LET t == Head(taxa)
             o1 == IF t.rank = "CLASS" THEN [o EXCEPT !.class = t.organism_name] ELSE o
             o2 == IF t.rank = "ORDER" THEN [o1 EXCEPT !.order = t.organism_name] ELSE o1
         IN ChooseDeepest(o2, Tail(taxa))

\* What one lineage lookup yields: the ancestor's node, or null.
Answer(o, id) ==
    IF o = "ok"
    THEN [rank |-> TaxonNode(id).rank, organism_name |-> TaxonNode(id).organism_name]
    ELSE NoNode

\* (mutant) one failed lookup discards every ancestor
FilterAllOrNothing(taxa) == IF \E i \in 1..Len(taxa) : taxa[i] = NoNode THEN <<>> ELSE taxa

\* .filter(Boolean) on the settled lineage promises
FilterBoolean(taxa) == SelectSeq(taxa, LAMBDA t : t # NoNode)

\* build.js: the main taxon answer arrives.  "err": the request failed or the
\* body is not JSON; "nonode": JSON without taxonomy_nodes[0].taxonomy.
JsMainResponse ==
    /\ variant = "build.js" /\ pc = "enrich" /\ est = "main"
    /\ \E r \in inflight, o \in {"err", "nonode", "ok"} :
         LET node == TaxonNode(r.id)
             lineageIds == env.lineage[r.id]
             o1 == WithSpecies(out, node)
         IN IF o # "ok"
            THEN /\ ReturnOut(out, found, linRes)
                 /\ inflight' = {}
                 /\ UNCHANGED taxReqs
            ELSE IF Len(lineageIds) = 0
            THEN /\ ReturnOut(o1, [found EXCEPT !.node = TRUE], <<>>)
                 /\ inflight' = {}
                 /\ UNCHANGED taxReqs
            ELSE /\ out' = o1
                 /\ found' = [found EXCEPT !.node = TRUE]
                 /\ est' = "lineage"
                 /\ linRes' = [j \in 1..Len(lineageIds) |-> Pending]
                 /\ inflight' = {Req("ncbi", k, lineageIds[j], j) : j \in 1..Len(lineageIds)}
                 /\ taxReqs' = taxReqs \cup {<<k, "ncbi", lineageIds[j]>> : j \in 1..Len(lineageIds)}
                 /\ UNCHANGED <<data, enrichLog, k, li, att>>
    /\ UNCHANGED <<page, variant, env, files, pc, bibMap, fileVars, events, bibReqs, calls>>

\* (mutant) the answers are collected in the order they arrive
JsLineageResponseByArrival ==
    /\ variant = "build.js" /\ pc = "enrich" /\ est = "lineage"
    /\ \E r \in inflight, o \in {"err", "nonode", "ok"} :
         LET slot == CHOOSE i \in 1..Len(linRes) :
                        linRes[i] = Pending /\ \A j \in 1..(i - 1) : linRes[j] # Pending
             settled == [linRes EXCEPT ![slot] = Answer(o, r.id)]
         IN /\ inflight' = inflight \ {r}
            /\ IF inflight \ {r} = {}
               THEN ReturnOut(ChooseDeepest(out, FilterBoolean(settled)), found, settled)
               ELSE /\ linRes' = settled
                    /\ UNCHANGED <<data, enrichLog, k, est, out, li, att, found>>
    /\ UNCHANGED <<page, variant, env, files, pc, bibMap, fileVars, events, taxReqs, bibReqs, calls>>

\* build.js: one of the concurrent lineage answers arrives; the last one
\* settles Promise.all and the choice is made.
JsLineageResponse ==
    /\ variant = "build.js" /\ pc = "enrich" /\ est = "lineage"
    /\ \E r \in inflight, o \in {"err", "nonode", "ok"} :
         LET settled == [linRes EXCEPT ![r.slot] = Answer(o, r.id)]
         IN /\ inflight' = inflight \ {r}
            /\ IF inflight \ {r} = {}
               THEN ReturnOut(ChooseDeepest(out, FilterBoolean(settled)), found, settled)
               ELSE /\ linRes' = settled
                    /\ UNCHANGED <<data, enrichLog, k, est, out, li, att, found>>
    /\ UNCHANGED <<page, variant, env, files, pc, bibMap, fileVars, events, taxReqs, bibReqs, calls>>

\* ---- part_002 and part_001: the backward walk over node.lineage
TaxonAttempts == 3
GbifAttempts == 2

\* (mutant) the loop without its "if (lt < 10) continue"
RECURSIVE NextVisitAnyId(_, _)
NextVisitAnyId(ids, from) ==
    IF from < 0 THEN -1
    ELSE IF ids[from + 1] < 0 THEN NextVisitAnyId(ids, from - 1)
    ELSE from

\* for (let i = ...; i >= 0; i--) { const lt = lineageIds[i]; if (lt < 10) continue;
\* the next index (0-based) at or below `from` that is fetched, -1 when none.
RECURSIVE NextVisit(_, _)
NextVisit(ids, from) ==
    IF from < 0 THEN -1
    ELSE IF ids[from + 1] < 10 THEN NextVisit(ids, from - 1)
    ELSE from

\* out.class = foundClass; out.order = foundOrder;
WithFound(o, f) == [o EXCEPT !.class = f.class, !.order = f.order]

WalkEnded(f) == [f EXCEPT !.walked = TRUE, !.ncbiClass = f.class, !.ncbiOrder = f.order]

\* The request for lineage index i (0-based) goes out.
VisitLineage(o, f, lin, ids, i) ==
    /\ out' = o
    /\ found' = f
    /\ linRes' = lin
    /\ li' = i
    /\ att' = 0
    /\ est' = "walk"
    /\ inflight' = {Req("ncbi", k, ids[i + 1], i + 1)}
    /\ taxReqs' = taxReqs \cup {<<k, "ncbi", ids[i + 1]>>}
    /\ UNCHANGED <<data, enrichLog, k>>

\* part_002: the loop goes on from index `from`, or enrichTaxonomy returns.
P2Continue(o, f, lin, from) ==
    LET ids == env.lineage[data[k].taxid]
        i == NextVisit(ids, from)
    IN IF i < 0
       THEN /\ ReturnOut(WithFound(o, f), WalkEnded(f), lin)
            /\ inflight' = {}
            /\ UNCHANGED taxReqs
       ELSE VisitLineage(o, f, lin, ids, i)

\* part_002: fetchTaxonMinimal(taxid) settles ("none": a status other than
\* 200 or no taxonomy node; "err": the request threw, which is caught).
P2MainResponse ==
    /\ variant = "part_002" /\ pc = "enrich" /\ est = "main"
    /\ \E o \in {"err", "none", "ok"} :
         IF o # "ok"
         THEN /\ ReturnOut(out, found, linRes)
              /\ inflight' = {}
              /\ UNCHANGED taxReqs
         ELSE P2Continue(WithSpecies(out, TaxonNode(data[k].taxid)),
                         [found EXCEPT !.node = TRUE],
                         [j \in 1..Len(env.lineage[data[k].taxid]) |-> Pending],
                         Len(env.lineage[data[k].taxid]) - 2)
    /\ UNCHANGED <<page, variant, env, files, pc, bibMap, fileVars, events, bibReqs, calls>>

\* (mutant) every class and every order met replaces the one held
P2KeepOverwriting(f, ln) ==
    LET rank == LowerRank(ln.rank)
        f1 == IF rank = "class"
              THEN [f EXCEPT !.class = ln.organism_name, !.classBy = "ncbi"] ELSE f
    IN IF rank = "order"
       THEN [f1 EXCEPT !.order = ln.organism_name, !.orderBy = "ncbi"] ELSE f1

\* part_002: the first class and the first order met are kept.
P2Keep(f, ln) ==
    LET rank == LowerRank(ln.rank)
        f1 == IF Falsy(f.class) /\ rank = "class"
              THEN [f EXCEPT !.class = ln.organism_name, !.classBy = "ncbi"] ELSE f
    IN IF Falsy(f1.order) /\ rank = "order"
       THEN [f1 EXCEPT !.order = ln.organism_name, !.orderBy = "ncbi"] ELSE f1

\* part_002: the answer for lineage index li arrives.
P2LineageResponse ==
    /\ variant = "part_002" /\ pc = "enrich" /\ est = "walk"
    /\ \E o \in {"err", "none", "ok"} :
         LET ids == env.lineage[data[k].taxid]
             f2 == IF o = "ok" THEN P2Keep(found, TaxonNode(ids[li + 1])) ELSE found
             lin == [linRes EXCEPT ![li + 1] = Answer(o, ids[li + 1])]
         IN IF o = "ok" /\ ~Falsy(f2.class) /\ ~Falsy(f2.order)
            THEN /\ ReturnOut(WithFound(out, f2), WalkEnded(f2), lin)
                 /\ inflight' = {}
                 /\ UNCHANGED taxReqs
            ELSE P2Continue(out, f2, lin, li - 1)
    /\ UNCHANGED <<page, variant, env, files, pc, bibMap, fileVars, events, bibReqs, calls>>

\* (mutant) the same delay after every attempt
BackoffMsFlat(state, i) == IF state = "gbifWait" THEN 300 ELSE 500

\* setTimeout(r, 500 * (i + 1)) in fetchTaxonMinimal, 300 * (i + 1) in
\* fetchGBIFClassification: the delay in ms after attempt i (0-based).
BackoffMs(state, i) == IF state = "gbifWait" THEN 300 * (i + 1) ELSE 500 * (i + 1)

\* The timer has fired.
Expired(f) == [f EXCEPT !.timer = 0]

\* part_001: the backoff timer of a retry loop is armed.
Backoff(state) ==
    /\ est' = state
    /\ inflight' = {}
    /\ found' = [found EXCEPT !.timer = BackoffMs(state, att)]
    /\ UNCHANGED <<out, li, att, taxReqs, data, enrichLog, k, linRes>>

\* part_001: an exception leaves enrichTaxonomy and the top-level await.
Rejected ==
    /\ inflight' = {}
    /\ UNCHANGED <<est, out, li, att, found, taxReqs, data, enrichLog, k, linRes>>

\* part_001: the same request is sent again (attempt att + 1).
Retry(state) ==
    /\ est' = state
    /\ att' = att + 1
    /\ \E r \in {Req(IF state = "gbif" THEN "gbif" ELSE "ncbi", k,
                     IF state = "walk" THEN env.lineage[data[k].taxid][li + 1]
                     ELSE data[k].taxid,
                     IF state = "walk" THEN li + 1 ELSE 0)} :
         /\ inflight' = {r}
         /\ taxReqs' = taxReqs \cup {<<k, r.svc, r.id>>}
    /\ found' = Expired(found)
    /\ UNCHANGED <<out, li, data, enrichLog, k, linRes>>

\* gbifLineage.find(n => (n.rank || '').toLowerCase() === rank)
GbifFind(c, rank) ==
    LET hits == SelectSeq(c, LAMBDA n : LowerRank(n.rank) = rank)
    IN IF hits = <<>> THEN Null ELSE Head(hits).name

\* (mutant) a GBIF class or order always replaces the NCBI one
GbifMergeOverride(o, f, c) ==
    LET cls == GbifFind(c, "class")
        ord == GbifFind(c, "order")
        f1 == IF cls # Null THEN [f EXCEPT !.class = cls, !.classBy = "gbif"] ELSE f
        f2 == IF ord # Null THEN [f1 EXCEPT !.order = ord, !.orderBy = "gbif"] ELSE f1
        o1 == IF cls # Null \/ ord # Null THEN [o EXCEPT !.source = "ncbi+gbif"] ELSE o
    IN [out |-> WithFound(o1, f2), found |-> f2]

\* part_001 lines 195-213: GBIF fills only what NCBI left unset.
GbifMerge(o, f, c) ==
    LET cls == GbifFind(c, "class")
        ord == GbifFind(c, "order")
        f1 == IF cls # Null /\ Falsy(f.class)
              THEN [f EXCEPT !.class = cls, !.classBy = "gbif"] ELSE f
        f2 == IF ord # Null /\ Falsy(f.order)
              THEN [f1 EXCEPT !.order = ord, !.orderBy = "gbif"] ELSE f1
        o1 == IF (cls # Null /\ Falsy(f.class)) \/ (ord # Null /\ Falsy(f.order))
              THEN [o EXCEPT !.source = "ncbi+gbif"] ELSE o
    IN [out |-> WithFound(o1, f2), found |-> f2]

\* part_001: the walk is over: early exit, or the GBIF fallback.
P1AfterWalk(o, f, lin) ==
    LET fw == WalkEnded(f)
        name == TaxonNode(data[k].taxid).organism_name
    IN IF (~Falsy(f.class) /\ ~Falsy(f.order)) \/ Falsy(name)
       THEN /\ ReturnOut(WithFound(o, f), fw, lin)
            /\ inflight' = {}
            /\ UNCHANGED taxReqs
       ELSE /\ out' = o
            /\ found' = fw
            /\ linRes' = lin
            /\ li' = 0
            /\ att' = 0
            /\ est' = "gbif"
            /\ inflight' = {Req("gbif", k, data[k].taxid, 0)}
            /\ taxReqs' = taxReqs \cup {<<k, "gbif", data[k].taxid>>}
            /\ UNCHANGED <<data, enrichLog, k>>

P1Continue(o, f, lin, from) ==
    LET ids == env.lineage[data[k].taxid]
        i == NextVisit(ids, from)
    IN IF i < 0 THEN P1AfterWalk(o, f, lin) ELSE VisitLineage(o, f, lin, ids, i)

\* part_001: an attempt of fetchTaxonMinimal(taxid) settles.  An error of
\* the last attempt is rethrown and nothing catches it.
P1MainResponse ==
    /\ variant = "part_001" /\ pc = "enrich" /\ est = "main"
    /\ \E o \in {"err", "none", "ok"} :
         IF o = "ok"
         THEN /\ P1Continue(WithSpecies(out, TaxonNode(data[k].taxid)),
                            [found EXCEPT !.node = TRUE],
                            [j \in 1..Len(env.lineage[data[k].taxid]) |-> Pending],
                            Len(env.lineage[data[k].taxid]) - 2)
              /\ UNCHANGED pc
         ELSE IF o = "err" /\ att = TaxonAttempts - 1
         THEN /\ Rejected
              /\ pc' = "aborted"
         ELSE /\ Backoff("mainWait")
              /\ UNCHANGED pc
    /\ UNCHANGED <<page, variant, env, files, bibMap, fileVars, events, bibReqs, calls>>

\* part_001: the backoff after an attempt on the main taxon is over.
P1MainTimer ==
    /\ variant = "part_001" /\ pc = "enrich" /\ est = "mainWait"
    /\ IF att + 1 < TaxonAttempts
       THEN Retry("main")
       ELSE /\ ReturnOut(out, Expired(found), linRes)
            /\ inflight' = {}
            /\ UNCHANGED taxReqs
    /\ UNCHANGED <<page, variant, env, files, pc, bibMap, fileVars, events, bibReqs, calls>>

\* (mutant) a class or order already held is not replaced
P1KeepFirst(f, ln) ==
    LET rank == LowerRank(ln.rank)
        f1 == IF Falsy(f.class) /\ rank = "class"
              THEN [f EXCEPT !.class = ln.organism_name, !.classBy = "ncbi"] ELSE f
    IN IF Falsy(f1.order) /\ rank = "order"
       THEN [f1 EXCEPT !.order = ln.organism_name, !.orderBy = "ncbi"] ELSE f1

\* part_001: the last class and the last order met (nearest the root) stay.
P1Keep(f, ln) ==
    LET rank == LowerRank(ln.rank)
        f1 == IF rank = "class"
              THEN [f EXCEPT !.class = ln.organism_name, !.classBy = "ncbi"] ELSE f
    IN IF rank = "order"
       THEN [f1 EXCEPT !.order = ln.organism_name, !.orderBy = "ncbi"] ELSE f1

\* part_001: an attempt of fetchTaxonMinimal(lt) settles; an error of the
\* last attempt is caught by the loop (continue).
P1LineageResponse ==
    /\ variant = "part_001" /\ pc = "enrich" /\ est = "walk"
    /\ \E o \in {"err", "none", "ok"} :
         LET ids == env.lineage[data[k].taxid]
         IN IF o = "ok"
            THEN P1Continue(out, P1Keep(found, TaxonNode(ids[li + 1])),
                            [linRes EXCEPT ![li + 1] = Answer("ok", ids[li + 1])], li - 1)
            ELSE IF o = "err" /\ att = TaxonAttempts - 1
            THEN P1Continue(out, found, [linRes EXCEPT ![li + 1] = NoNode], li - 1)
            ELSE Backoff("walkWait")
    /\ UNCHANGED <<page, variant, env, files, pc, bibMap, fileVars, events, bibReqs, calls>>

P1LineageTimer ==
    /\ variant = "part_001" /\ pc = "enrich" /\ est = "walkWait"
    /\ IF att + 1 < TaxonAttempts
       THEN Retry("walk")
       ELSE P1Continue(out, Expired(found), [linRes EXCEPT ![li + 1] = NoNode], li - 1)
    /\ UNCHANGED <<page, variant, env, files, pc, bibMap, fileVars, events, bibReqs, calls>>

\* part_001: an attempt of fetchGBIFClassification settles.
P1GbifResponse ==
    /\ variant = "part_001" /\ pc = "enrich" /\ est = "gbif"
    /\ \/ \E c \in env.gbif :
            /\ ReturnOut(GbifMerge(out, found, c).out, GbifMerge(out, found, c).found, linRes)
            /\ inflight' = {}
            /\ UNCHANGED <<taxReqs, pc>>
       \/ \E o \in {"err", "none"} :
            IF o = "err" /\ att = GbifAttempts - 1
            THEN /\ Rejected
                 /\ pc' = "aborted"
            ELSE /\ Backoff("gbifWait")
                 /\ UNCHANGED pc
    /\ UNCHANGED <<page, variant, env, files, bibMap, fileVars, events, bibReqs, calls>>

P1GbifTimer ==
    /\ variant = "part_001" /\ pc = "enrich" /\ est = "gbifWait"
    /\ IF att + 1 < GbifAttempts
       THEN Retry("gbif")
       ELSE /\ ReturnOut(WithFound(out, found), Expired(found), linRes)
            /\ inflight' = {}
            /\ UNCHANGED taxReqs
    /\ UNCHANGED <<page, variant, env, files, pc, bibMap, fileVars, events, bibReqs, calls>>

\* The enrichment loop is over: ensureDir(PUBLIC_DIR), buildBibtexMap(data)
\* starts with const map = {}.
EnrichDone ==
    /\ pc = "enrich" /\ est = "idle" /\ k = Len(data) + 1
    /\ pc' = "bib"
    /\ k' = 1
    /\ bibMap' = <<>>
    /\ events' = Append(events, Event("buildBibtexMap", 0))
    /\ UNCHANGED <<page, variant, env, files, data, taxVars, inflight, fileVars,
                   enrichLog, taxReqs, bibReqs, calls>>

\* ------------------------------------------------- step 3: the BibTeX map
\* [A-Za-z0-9_], on the characters the model's DOIs are written with.
IsWordChar(c) == c \in {"0", "1", "2", "3", "4", "5", "6", "7", "8", "9", "x", "_"}

\* csl.DOI.replace(/\W+/g, "_"): each run of non-word characters becomes "_".
RECURSIVE ReplaceNonWord(_)
ReplaceNonWord(s) ==
    IF s = <<>> THEN <<>>
    ELSE IF IsWordChar(Head(s)) THEN <<Head(s)>> \o ReplaceNonWord(Tail(s))
    ELSE IF Len(s) > 1 /\ ~IsWordChar(s[2]) THEN ReplaceNonWord(Tail(s))
    ELSE <<"_">> \o ReplaceNonWord(Tail(s))

\* ${x || ""} inside the template
Text(x) == IF Falsy(x) THEN <<>> ELSE <<x>>

\* `${a.family || ""}, ${a.given || ""}`.trim()
AuthorText(a) == Trim(Text(a.family) \o <<",", " ">> \o Text(a.given))

\* .join(" and ")
RECURSIVE JoinAnd(_)
JoinAnd(parts) ==
    IF parts = <<>> THEN <<>>
    ELSE IF Len(parts) = 1 THEN Head(parts)
    ELSE Head(parts) \o <<" and ">> \o JoinAnd(Tail(parts))

\* cslToBibtex(csl), as the text it returns (a sequence of pieces).
CslToBibtex(csl) ==
    LET id == IF csl.DOI # <<>> THEN ReplaceNonWord(csl.DOI) ELSE <<"entry">>
        authors == JoinAnd([n \in 1..Len(csl.author) |-> AuthorText(csl.author[n])])
    IN Trim(<<" ", "@article{">> \o id \o <<",", "title={">> \o Text(csl.title)
            \o <<"}", "author={">> \o authors
            \o <<"}", "journal={}", "year={}", "volume={}", "number={}", "pages={}", "doi={">>
            \o csl.DOI \o <<"}", "}">>)

\* What httpGet(crossref url) may settle with.
CrossrefOutcomes ==
    {[err |-> TRUE, status |-> 0, body |-> <<>>]}
    \cup {[err |-> FALSE, status |-> st, body |-> b] : st \in env.statuses, b \in env.bodies}

\* What httpGetJson(doi.org url) may settle with: a rejection (request error,
\* body that is not JSON), the JSON value null, or a CSL document.
CslOutcomes ==
    {[kind |-> "err", doc |-> CslDoc(<<>>, Absent, <<>>)],
     [kind |-> "null", doc |-> CslDoc(<<>>, Absent, <<>>)]}
    \cup {[kind |-> "doc", doc |-> d] : d \in env.csl}

NoCsl == [kind |-> "none", doc |-> CslDoc(<<>>, Absent, <<>>)]

\* (mutant) any non-empty Crossref body is returned, an HTML page included
CrossrefUsableAnyBody(c) == ~c.err /\ c.body # <<>>

\* if (bib && !bib.startsWith("<")) return bib.trim();
CrossrefUsable(c) == ~c.err /\ c.body # <<>> /\ ~StartsWithLt(c.body)

\* The second try block of fetchBibtex: return cslToBibtex(csl), "" when
\* the request or the conversion throws.
\* build.js: httpGetJson resolves with the parsed body, and cslToBibtex(null)
\* throws.  part_001 / part_002: httpGetJson resolves with {status, json}, an
\* object without DOI, title or author, whatever the body was.
CslResult(c) ==
    IF c.kind = "err" THEN <<>>
    ELSE IF variant = "build.js"
    THEN (IF c.kind = "doc" THEN CslToBibtex(c.doc) ELSE <<>>)
    ELSE CslToBibtex(CslDoc(<<>>, Absent, <<>>))

\* The second argument fetchBibtex gives httpGetJson for the doi.org request.
CslOptions == [Accept |-> "application/vnd.citationstyles.csl+json"]

\* https.request(url, options, ...): the headers of the request are
\* options.headers; other keys of options are not headers.
RequestHeaders(options) ==
    IF "headers" \in DOMAIN options THEN options.headers ELSE <<>>

\* The Accept header the doi.org request goes out with, if any.
AcceptSent(options) ==
    IF "Accept" \in DOMAIN RequestHeaders(options)
    THEN RequestHeaders(options).Accept ELSE Absent

\* (mutant) an empty citation adds no key to the map
StoreBibNonEmpty(v) ==
    /\ bibMap' = IF v = <<>> THEN bibMap ELSE (data[k].doi :> v) @@ bibMap
    /\ k' = k + 1
    /\ est' = "idle"
    /\ inflight' = {}

\* map[entry.doi] = <settled value>; next loop iteration.
StoreBib(v) ==
    /\ bibMap' = (data[k].doi :> v) @@ bibMap
    /\ k' = k + 1
    /\ est' = "idle"
    /\ inflight' = {}

\* for (const entry of data) { if (!entry.doi) continue; ...
BibSkip ==
    /\ pc = "bib" /\ est = "idle" /\ k <= Len(data)
    /\ ~TruthyDoi(data[k])
    /\ k' = k + 1
    /\ events' = Append(events, Event("skipBibtex", k))
    /\ UNCHANGED <<page, variant, env, files, data, pc, taxVars, inflight, bibMap, fileVars,
                   enrichLog, taxReqs, bibReqs, calls>>

\* (mutant) the Crossref and the doi.org requests are issued together
CrossrefStartBoth ==
    /\ pc = "bib" /\ est = "idle" /\ k <= Len(data)
    /\ TruthyDoi(data[k])
    /\ est' = "crossref"
    /\ inflight' = inflight \cup {Req("crossref", k, data[k].doi, 0),
                                   Req("doi.org", k, data[k].doi, 0)}
    /\ bibReqs' = bibReqs \o <<[svc |-> "crossref", idx |-> k], [svc |-> "doi.org", idx |-> k]>>
    /\ calls' = [NoCall EXCEPT !.idx = k, !.doi = data[k].doi, !.cslAsked = TRUE]
    /\ events' = Append(events, Event("fetchBibtex", k))
    /\ UNCHANGED <<page, variant, env, files, data, pc, k, out, li, att, found, linRes, bibMap,
                   fileVars, enrichLog, taxReqs>>

\* fetchBibtex(entry.doi) up to its first await: the Crossref request.
CrossrefStart ==
    /\ pc = "bib" /\ est = "idle" /\ k <= Len(data)
    /\ TruthyDoi(data[k])
    /\ est' = "crossref"
    /\ inflight' = inflight \cup {Req("crossref", k, data[k].doi, 0)}
    /\ bibReqs' = Append(bibReqs, [svc |-> "crossref", idx |-> k])
    /\ calls' = [NoCall EXCEPT !.idx = k, !.doi = data[k].doi]
    /\ events' = Append(events, Event("fetchBibtex", k))
    /\ UNCHANGED <<page, variant, env, files, data, pc, k, out, li, att, found, linRes, bibMap,
                   fileVars, enrichLog, taxReqs>>

\* The Crossref answer arrives: either fetchBibtex returns the trimmed body,
\* or it goes on to the CSL request.
CrossrefResponse ==
    /\ variant # "part_000"
    /\ pc = "bib" /\ est = "crossref"
    /\ \E c \in CrossrefOutcomes :
         IF CrossrefUsable(c)
         THEN /\ StoreBib(Trim(c.body))
              /\ calls' = [calls EXCEPT !.crossref = c, !.settled = TRUE,
                                        !.result = Trim(c.body)]
              /\ UNCHANGED bibReqs
         ELSE /\ est' = "csl"
              /\ inflight' = {Req("doi.org", k, data[k].doi, 0)}
              /\ bibReqs' = Append(bibReqs, [svc |-> "doi.org", idx |-> k])
              /\ calls' = [calls EXCEPT !.crossref = c, !.cslAsked = TRUE,
                                        !.accept = AcceptSent(CslOptions)]
              /\ UNCHANGED <<bibMap, k>>
    /\ UNCHANGED <<page, variant, env, files, data, pc, out, li, att, found, linRes, fileVars,
                   events, enrichLog, taxReqs>>

\* The doi.org answer arrives and fetchBibtex returns.
CslResponse ==
    /\ pc = "bib" /\ est = "csl"
    /\ \E c \in CslOutcomes :
         /\ StoreBib(CslResult(c))
         /\ calls' = [calls EXCEPT !.csl = c, !.settled = TRUE, !.result = CslResult(c)]
    /\ UNCHANGED <<page, variant, env, files, data, pc, out, li, att, found, linRes, fileVars,
                   events, enrichLog, taxReqs, bibReqs>>

\* part_000, fetchBibtex: resolve("") for a body that starts with "<",
\* resolve(data.trim()) for any other, whatever the status.
P0Resolved(c) == IF StartsWithLt(c.body) THEN <<>> ELSE Trim(c.body)

\* part_000: the Crossref answer arrives; a rejected request is caught by
\* buildBibtexMap and leaves the map without the key.
P0CrossrefResponse ==
    /\ variant = "part_000"
    /\ pc = "bib" /\ est = "crossref"
    /\ \E c \in CrossrefOutcomes :
         IF c.err
         THEN /\ k' = k + 1
              /\ est' = "idle"
              /\ inflight' = {}
              /\ calls' = [calls EXCEPT !.crossref = c, !.settled = TRUE]
              /\ UNCHANGED bibMap
         ELSE /\ StoreBib(P0Resolved(c))
              /\ calls' = [calls EXCEPT !.crossref = c, !.settled = TRUE,
                                        !.result = P0Resolved(c)]
    /\ UNCHANGED <<page, variant, env, files, data, pc, out, li, att, found, linRes, fileVars,
                   events, enrichLog, taxReqs, bibReqs>>

\* buildBibtexMap returned; fs.writeFileSync(public/bibtex.json).
WriteBibtexJson ==
    /\ pc = "bib" /\ est = "idle" /\ k = Len(data) + 1
    /\ publicBibtex' = File(bibMap)
    /\ pc' = "html"
    /\ events' = Append(events, Event("writeBibtexJson", 0))
    /\ UNCHANGED <<page, variant, env, files, data, k, taxVars, inflight, bibMap, distHtml,
                   distBibtex, enrichLog, taxReqs, bibReqs, calls>>

\* html.replace("<!-- INJECT_DATA -->", text): the second argument is a
\* replacement string, in which "$$" stands for one "$" (and $&, $`, $' for
\* parts of the template).  Of the texts of the model only the note has one.
ReplacementText(text) == IF text = "5 $$ each" THEN "5 $ each" ELSE text

\* The value of window.__DATA__ in the written page: JSON.stringify(data)
\* passed through html.replace as the replacement string.
InjectData(d) ==
    [j \in 1..Len(d) |->
        [key \in DOMAIN d[j] |->
            IF key = "taxid" THEN d[j][key] ELSE ReplacementText(d[j][key])]]

\* Steps 4-5: the template with window.__DATA__ = JSON.stringify(data).
WriteIndexHtml ==
    /\ pc = "html"
    /\ distHtml' = File(InjectData(data))
    /\ pc' = "copy"
    /\ events' = Append(events, Event("writeIndexHtml", 0))
    /\ UNCHANGED <<page, variant, env, files, data, k, taxVars, inflight, bibMap, publicBibtex,
                   distBibtex, enrichLog, taxReqs, bibReqs, calls>>

\* console.log(`BibTeX entries: ${Object.keys(bibMap).length}`)
BibtexEntriesLogged == Cardinality(DOMAIN bibMap)

\* (mutant) a file already in dist/public is left as it is
CopyPublicIfMissing ==
    /\ pc = "copy"
    /\ distBibtex' = IF distBibtex.exists THEN distBibtex ELSE publicBibtex
    /\ pc' = "done"
    /\ events' = Append(events, Event("copyPublic", 0))
    /\ UNCHANGED <<page, variant, env, files, data, k, taxVars, inflight, bibMap, publicBibtex,
                   distHtml, enrichLog, taxReqs, bibReqs, calls>>

\* Steps 6-7: the assets and public/* are copied into dist/.
CopyPublic ==
    /\ pc = "copy"
    /\ distBibtex' = publicBibtex
    /\ pc' = "done"
    /\ events' = Append(events, Event("copyPublic", 0))
    /\ UNCHANGED <<page, variant, env, files, data, k, taxVars, inflight, bibMap, publicBibtex,
                   distHtml, enrichLog, taxReqs, bibReqs, calls>>

Next ==
    \/ ReadAllData
    \/ EnrichSkip
    \/ EnrichStart
    \/ JsMainResponse
    \/ JsLineageResponse
    \/ P2MainResponse
    \/ P2LineageResponse
    \/ P1MainResponse
    \/ P1MainTimer
    \/ P1LineageResponse
    \/ P1LineageTimer
    \/ P1GbifResponse
    \/ P1GbifTimer
    \/ EnrichDone
    \/ BibSkip
    \/ CrossrefStart
    \/ CrossrefResponse
    \/ CslResponse
    \/ WriteBibtexJson
    \/ WriteIndexHtml
    \/ CopyPublic

Spec == Init /\ [][Next]_vars

\* ------------------------------------- enrichTaxonomy on its own
\* One call of enrichTaxonomy(1), for every lineage array NCBI may hold for
\* the taxon, with and without an organism_name, and every GBIF answer.
Lineages == SeqsUpTo(AncIds \cup {1}, MaxLineage)

InitEnrich ==
    /\ InitCommon
    /\ page = NoPage
    /\ \E l \in Lineages, n \in {"Sp1", Absent} :
         env = [lineage |-> (1 :> l), name |-> (1 :> n), common |-> (1 :> "vernacular1"),
                gbif |-> GbifClassifications, bodies |-> {}, statuses |-> {}, csl |-> {}]
    /\ files = <<FileEntry("d1", 1, TRUE)>>
    /\ data = files
    /\ pc = "enrich"
    /\ k = 1
    /\ bibMap = <<>>
    /\ events = <<Event("load", 0)>>

NextEnrich ==
    \/ EnrichStart
    \/ JsMainResponse
    \/ JsLineageResponse
    \/ P2MainResponse
    \/ P2LineageResponse
    \/ P1MainResponse
    \/ P1MainTimer
    \/ P1LineageResponse
    \/ P1LineageTimer
    \/ P1GbifResponse
    \/ P1GbifTimer
    \/ EnrichDone

SpecEnrich == InitEnrich /\ [][NextEnrich]_vars

\* ------------------------------------- from buildBibtexMap to dist/public
\* Steps 3-7 of the build, in the four variants, in a project folder where
\* an earlier run may have left public/bibtex.json and
\* dist/public/bibtex.json; Crossref answers with every body of up to
\* MaxBody characters and a 200 or a 404 status.
StaleMap == "d0" :> <<"b">>

InitPublish ==
    /\ variant \in Variants \cup {"part_000"}
    /\ page = NoPage
    /\ env = [BuildEnv EXCEPT !.bodies = SeqsUpTo(BodyChars, MaxBody),
                              !.statuses = {200, 404}, !.csl = CslDocs]
    /\ files = <<FileEntry(Absent, 0, FALSE), FileEntry("d1", 0, FALSE)>>
    /\ data = files
    /\ pc = "bib"
    /\ k = 1
    /\ est = "idle"
    /\ out = <<>>
    /\ li = 0
    /\ att = 0
    /\ found = NoFound
    /\ linRes = <<>>
    /\ inflight = {}
    /\ bibMap = <<>>
    /\ publicBibtex \in {NoFile, File(StaleMap)}
    /\ distBibtex \in {NoFile, File(StaleMap)}
    /\ distHtml = NoFile
    /\ events = <<Event("load", 0), Event("buildBibtexMap", 0)>>
    /\ enrichLog = <<>>
    /\ taxReqs = {}
    /\ bibReqs = <<>>
    /\ calls = NoCall

NextPublish ==
    \/ BibSkip
    \/ CrossrefStart
    \/ CrossrefResponse
    \/ CslResponse
    \/ P0CrossrefResponse
    \/ WriteBibtexJson
    \/ WriteIndexHtml
    \/ CopyPublic

SpecPublish == InitPublish /\ [][NextPublish]_vars

\* ------------------------------------- the backward walks on longer lineages
\* One enrichTaxonomy call of part_001 or part_002 for every lineage of up
\* to MaxWalk ancestors of rank class or order.
MaxWalk == 4
WalkIds == {20, 21, 23}

InitWalk ==
    /\ InitCommon
    /\ variant \in {"part_001", "part_002"}
    /\ page = NoPage
    /\ \E l \in SeqsUpTo(WalkIds, MaxWalk) :
         env = [lineage |-> (1 :> l), name |-> (1 :> "Sp1"), common |-> (1 :> "vernacular1"),
                gbif |-> BuildEnv.gbif, bodies |-> {}, statuses |-> {}, csl |-> {}]
    /\ files = <<FileEntry("d1", 1, TRUE)>>
    /\ data = files
    /\ pc = "enrich"
    /\ k = 1
    /\ bibMap = <<>>
    /\ events = <<Event("load", 0)>>

NextWalk ==
    \/ EnrichStart
    \/ P2MainResponse
    \/ P2LineageResponse
    \/ P1MainResponse
    \/ P1MainTimer
    \/ P1LineageResponse
    \/ P1LineageTimer
    \/ P1GbifResponse
    \/ P1GbifTimer
    \/ EnrichDone

SpecWalk == InitWalk /\ [][NextWalk]_vars

\* ------------------------------------- buildBibtexMap on its own
\* buildBibtexMap(data) on an entry without a DOI and one with a DOI, for
\* every Crossref body of up to MaxBody characters.
InitFetch ==
    /\ InitCommon
    /\ page = NoPage
    /\ env = [BuildEnv EXCEPT !.bodies = SeqsUpTo(BodyChars, MaxBody), !.csl = CslDocs]
    /\ files = <<FileEntry(Absent, 0, FALSE), FileEntry("d1", 0, FALSE)>>
    /\ data = files
    /\ pc = "bib"
    /\ k = 1
    /\ bibMap = <<>>
    /\ events = <<Event("load", 0), Event("buildBibtexMap", 0)>>

NextFetch ==
    \/ BibSkip
    \/ CrossrefStart
    \/ CrossrefResponse
    \/ CslResponse
    \/ WriteBibtexJson

SpecFetch == InitFetch /\ [][NextFetch]_vars

\* ------------------------------------- readAllData on its own
MaxFiles == 2

\* A file of data/: its extension as written, whether its content parses,
\* and the value it parses to.
DirFile(ext, parses, value) == [ext |-> ext, parses |-> parses, value |-> value]

DirFiles ==
    {DirFile(".yaml", TRUE, FileEntry("d1", 0, TRUE)),
     DirFile(".YML", TRUE, FileEntry("d2", 0, FALSE)),
     DirFile(".json", FALSE, NullEntry),
     DirFile(".json", TRUE, NullEntry),
     DirFile(".txt", TRUE, FileEntry("d1", 0, FALSE))}

\* path.extname(file).toLowerCase()
LowerExt(ext) ==
    CASE ext = ".YML" -> ".yml"
      [] ext = ".YAML" -> ".yaml"
      [] ext = ".JSON" -> ".json"
      [] OTHER -> ext

\* The loop of readAllData over fs.readdirSync(DATA_DIR).
RECURSIVE PushParsed(_, _)
PushParsed(all, listing) ==
    IF listing = <<>> THEN all
    ELSE LET file == Head(listing)
         IN IF LowerExt(file.ext) \notin {".yaml", ".yml", ".json"}
            THEN PushParsed(all, Tail(listing))
            ELSE IF file.parses
            THEN PushParsed(Append(all, file.value), Tail(listing))
            ELSE PushParsed(all, Tail(listing))

\* readAllData() on the data directory dir.
ReadAllDataOf(dir) == IF ~dir.exists THEN <<>> ELSE PushParsed(<<>>, dir.listing)

\* Step 1 on a directory of files.
ReadDataDir ==
    /\ pc = "load"
    /\ files' = ReadAllDataOf(env.dir)
    /\ data' = ReadAllDataOf(env.dir)
    /\ pc' = "enrich"
    /\ k' = 1
    /\ events' = Append(events, Event("load", 0))
    /\ UNCHANGED <<page, variant, env, taxVars, inflight, bibMap, fileVars,
                   enrichLog, taxReqs, bibReqs, calls>>

\* if (entry.taxid) on an entry that is null or undefined: a TypeError
\* leaves the top-level script.
EnrichThrow ==
    /\ pc = "enrich" /\ est = "idle" /\ k <= Len(data)
    /\ ~IsObject(data[k])
    /\ pc' = "aborted"
    /\ UNCHANGED <<page, variant, env, files, data, k, taxVars, inflight, bibMap, fileVars,
                   histVars>>

InitLoad ==
    /\ InitCommon
    /\ page = NoPage
    /\ \E dir \in {[exists |-> FALSE, listing |-> <<>>]}
                   \cup {[exists |-> TRUE, listing |-> l] : l \in SeqsUpTo(DirFiles, MaxFiles)} :
         env = [dir |-> dir, lineage |-> BuildEnv.lineage, name |-> BuildEnv.name,
                common |-> BuildEnv.common, gbif |-> BuildEnv.gbif,
                bodies |-> BuildEnv.bodies, statuses |-> BuildEnv.statuses,
                csl |-> BuildEnv.csl]
    /\ files = <<>>
    /\ data = <<>>
    /\ pc = "load"
    /\ k = 0
    /\ bibMap = <<>>
    /\ events = <<>>

NextLoad ==
    \/ ReadDataDir
    \/ EnrichSkip
    \/ EnrichThrow
    \/ EnrichDone

SpecLoad == InitLoad /\ [][NextLoad]_vars

\* =========================================================== script.js
\* (second variant, lines 150-359)
MaxCards == 2
MaxText == 2
MaxDownloads == 2

\* e.species of a record whose enrichment returned null.
NullText == <<Null>>

\* An entry of window.__DATA__ as the page reads it; individuals and species
\* are texts (sequences of characters).
ClientEntry(doi, method, order, class, tissue, individuals, species) ==
    [doi |-> doi, method |-> method, order |-> order, class |-> class, tissue |-> tissue,
     individuals |-> individuals, species |-> species]

ClientEntries ==
    {ClientEntry("d1", "RRBS", "Primates", "Mammalia", "blood", <<"1", "2">>, <<"a", "B">>),
     ClientEntry("d2", "WGBS", Null, "Aves", Absent, <<"x">>, NullText),
     ClientEntry("d1", "RRBS", "Primates", "Aves", "blood", <<"3">>, <<"b", " ", "A", "a">>)}

\* What the user may type into #f-min-ind and #f-species.
MinIndTexts == SeqsUpTo({"3", "x"}, MaxText)
SpeciesTexts == SeqsUpTo({"A", " "}, MaxText)

\* uniqueSorted(entries.map(e => e[key])): the options of a multi-select.
Options(entries, key) == {entries[i][key] : i \in 1..Len(entries)} \ {Null, Absent, ""}

IsDigit(c) == c \in {"0", "1", "2", "3", "4", "5", "6", "7", "8", "9"}
DigitVal(c) ==
    CASE c = "0" -> 0 [] c = "1" -> 1 [] c = "2" -> 2 [] c = "3" -> 3 [] c = "4" -> 4
      [] c = "5" -> 5 [] c = "6" -> 6 [] c = "7" -> 7 [] c = "8" -> 8 [] c = "9" -> 9

RECURSIVE DigitsPrefix(_, _)
DigitsPrefix(s, acc) ==
    IF s = <<>> \/ ~IsDigit(Head(s)) THEN acc
    ELSE DigitsPrefix(Tail(s), acc * 10 + DigitVal(Head(s)))

\* parseInt(text): leading white space, a sign, then the longest run of
\* decimal digits; NaN when there is no digit.
ParseInt(s) ==
    LET t == TrimStart(s)
        signed == t # <<>> /\ Head(t) \in {"-", "+"}
        u == IF signed THEN Tail(t) ELSE t
    IN IF u = <<>> \/ ~IsDigit(Head(u)) THEN [nan |-> TRUE, n |-> 0]
       ELSE [nan |-> FALSE,
             n |-> IF signed /\ Head(t) = "-" THEN 0 - DigitsPrefix(u, 0) ELSE DigitsPrefix(u, 0)]

\* parseInt(text) || 0
ParseIntOr0(s) == IF ParseInt(s).nan THEN 0 ELSE ParseInt(s).n

\* toLowerCase()
ToLower(c) == CASE c = "A" -> "a" [] c = "B" -> "b" [] OTHER -> c
LowerText(s) == [i \in 1..Len(s) |-> ToLower(s[i])]

\* s.includes(sub)
Includes(s, sub) == \E i \in 0..(Len(s) - Len(sub)) : SubSeq(s, i + 1, i + Len(sub)) = sub

\* (e.species || '')
SpeciesOrEmpty(e) == IF e.species = NullText THEN <<>> ELSE e.species

\* (mutant) an entry with exactly the minimum is dropped
PassesMinIndStrict(e, minInd) == ~(minInd > 0 /\ ParseIntOr0(e.individuals) <= minInd)

\* if (minInd > 0 && (parseInt(e.individuals) || 0) < minInd) return false;
PassesMinInd(e, minInd) == ~(minInd > 0 /\ ParseIntOr0(e.individuals) < minInd)

\* if (speciesText && !(e.species || '').toLowerCase().includes(speciesText)) return false;
PassesSpecies(e, speciesText) ==
    ~(speciesText # <<>> /\ ~Includes(LowerText(SpeciesOrEmpty(e)), speciesText))

\* if (f.size && !f.has(value)) return false;
PassesSelect(f, value) == ~(f # {} /\ value \notin f)

\* applyFilters() on the controls of page p.
ApplyFilters(p) ==
    LET minInd == ParseIntOr0(p.fMinInd)
        speciesText == LowerText(Trim(p.fSpecies))
    IN SelectSeq(p.entries,
                 LAMBDA e : /\ PassesSelect(p.fMethod, e.method)
                            /\ PassesSelect(p.fOrder, e.order)
                            /\ PassesSelect(p.fClass, e.class)
                            /\ PassesSelect(p.fTissue, e.tissue)
                            /\ PassesMinInd(e, minInd)
                            /\ PassesSpecies(e, speciesText))

\* render(): the list is filtered and the cards are rebuilt, each checkbox
\* checked when its DOI is in selected.
Rendered(p) ==
    [p EXCEPT !.list = ApplyFilters(p),
              !.rendered = TRUE,
              !.checked = [i \in 1..Len(ApplyFilters(p)) |->
                             \E n \in 1..Len(p.selected) :
                                 p.selected[n] = ApplyFilters(p)[i].doi]]

\* A change / input event on one of the filter controls: render().
Render ==
    /\ pc = "served"
    /\ page' = Rendered(page)
    /\ UNCHANGED buildVars

\* The Clear button: every control is emptied, then render().
ClearFilters ==
    /\ pc = "served"
    /\ page' = Rendered([page EXCEPT !.fMethod = {}, !.fOrder = {}, !.fClass = {},
                                      !.fTissue = {}, !.fMinInd = <<>>, !.fSpecies = <<>>])
    /\ UNCHANGED buildVars

\* The build is over and its page is open in a browser.
Served ==
    /\ InitCommon
    /\ variant = "build.js"
    /\ env = BuildEnv
    /\ files = <<>>
    /\ data = <<>>
    /\ pc = "served"
    /\ k = 0
    /\ bibMap = <<>>
    /\ events = <<>>

\* applyFilters on its own: any list of entries, any state of the controls.
InitFilter ==
    /\ Served
    /\ \E entries \in SeqsUpTo(ClientEntries, MaxCards) :
       \E fm \in SUBSET Options(entries, "method"), fo \in SUBSET Options(entries, "order"),
          fc \in SUBSET Options(entries, "class"), ft \in SUBSET Options(entries, "tissue"),
          minInd \in MinIndTexts, species \in SpeciesTexts :
         page = [NoPage EXCEPT !.entries = entries, !.fMethod = fm, !.fOrder = fo,
                               !.fClass = fc, !.fTissue = ft, !.fMinInd = minInd,
                               !.fSpecies = species]

NextFilter ==
    \/ Render
    \/ ClearFilters

SpecFilter == InitFilter /\ [][NextFilter]_vars

\* ---- selection and BibTeX export
\* The public/bibtex.json files the page may be served with.
ClientMaps ==
    {("d1" :> <<"@1">>) @@ ("d2" :> <<"@2">>),
     ("d1" :> <<>>) @@ ("d2" :> <<"@2">>),
     ("d2" :> <<"@2">>),
     ("d1" :> <<>>)}

\* selected.add(doi) / selected.delete(doi); a Set keeps insertion order.
SelectedAdd(sel, doi) ==
    IF \E n \in 1..Len(sel) : sel[n] = doi THEN sel ELSE Append(sel, doi)
SelectedDelete(sel, doi) == SelectSeq(sel, LAMBDA x : x # doi)

\* The change listener of the checkbox of card i.
ToggleCheckbox ==
    /\ pc = "served" /\ page.rendered
    /\ \E i \in 1..Len(page.list) :
         LET doi == page.list[i].doi
             checked == ~page.checked[i]
         IN page' = [page EXCEPT !.checked[i] = checked,
                                 !.selected = IF checked THEN SelectedAdd(@, doi)
                                              ELSE SelectedDelete(@, doi)]
    /\ UNCHANGED buildVars

\* bibMap[d], undefined being as falsy as ""
MapValue(map, d) == IF d \in DOMAIN map THEN map[d] ELSE <<>>

\* (mutant) an empty value is pushed too
BibPartsWithEmpty(dois, map) == [n \in 1..Len(dois) |-> MapValue(map, dois[n])]

\* for (const d of dois) { if (bibMap[d]) parts.push(bibMap[d]); }
RECURSIVE BibParts(_, _)
BibParts(dois, map) ==
    IF dois = <<>> THEN <<>>
    ELSE (IF MapValue(map, Head(dois)) # <<>> THEN <<MapValue(map, Head(dois))>> ELSE <<>>)
             \o BibParts(Tail(dois), map)

\* parts.join('\n\n')
RECURSIVE JoinBlank(_)
JoinBlank(parts) ==
    IF parts = <<>> THEN <<>>
    ELSE IF Len(parts) = 1 THEN Head(parts)
    ELSE Head(parts) \o <<"\n\n">> \o JoinBlank(Tail(parts))

\* downloadBib after its await, the map being loaded.
DownloadBody(p) ==
    LET parts == BibParts(p.selected, p.served)
    IN [p EXCEPT !.ran = @ + 1,
                 !.downloads = IF p.selected = <<>> \/ parts = <<>> THEN @
                               ELSE Append(@, JoinBlank(parts))]

\* The calls suspended at the await go on one after the other.
RECURSIVE RunWaiting(_, _)
RunWaiting(p, n) == IF n = 0 THEN p ELSE RunWaiting(DownloadBody(p), n - 1)

\* A click on the download button: downloadBib() up to the end, or up to
\* its await while the map is loading; it throws when the load has failed.
ClickDownload ==
    /\ pc = "served" /\ page.clicks < MaxDownloads
    /\ page' = CASE page.bibMapPromise = "resolved" ->
                      DownloadBody([page EXCEPT !.clicks = @ + 1])
                 [] page.bibMapPromise = "pending" ->
                      [page EXCEPT !.clicks = @ + 1, !.waiting = @ + 1]
                 [] page.bibMapPromise = "rejected" ->
                      [page EXCEPT !.clicks = @ + 1]
    /\ UNCHANGED buildVars

\* loadBibMap() resolves with the parsed public/bibtex.json.
MapLoaded ==
    /\ pc = "served" /\ page.bibMapPromise = "pending"
    /\ page' = RunWaiting([page EXCEPT !.bibMapPromise = "resolved", !.waiting = 0],
                          page.waiting)
    /\ UNCHANGED buildVars

\* loadBibMap() rejects: fetch failed, !res.ok, or a body that is not JSON.
MapFailed ==
    /\ pc = "served" /\ page.bibMapPromise = "pending"
    /\ page' = [page EXCEPT !.bibMapPromise = "rejected", !.waiting = 0]
    /\ UNCHANGED buildVars

\* DOMContentLoaded has run: populateFilters(), render(); the map is loading.
InitDownload ==
    /\ Served
    /\ \E entries \in SeqsUpTo(ClientEntries, MaxCards), map \in ClientMaps :
         page = Rendered([NoPage EXCEPT !.entries = entries, !.served = map])

NextDownload ==
    \/ Render
    \/ ToggleCheckbox
    \/ ClickDownload
    \/ MapLoaded
    \/ MapFailed

SpecDownload == InitDownload /\ [][NextDownload]_vars

\* ================================================================= claims

\* The position of a script step in the order build.js gives them.
PhaseRank(e) ==
    CASE e.e = "load" -> 0
      [] e.e \in {"enrich", "skipTaxonomy"} -> 1
      [] e.e = "buildBibtexMap" -> 2
      [] e.e \in {"fetchBibtex", "skipBibtex"} -> 3
      [] e.e = "writeBibtexJson" -> 4
      [] e.e = "writeIndexHtml" -> 5
      [] e.e = "copyPublic" -> 6

EventsOfPhase(n) == SelectSeq(events, LAMBDA e : PhaseRank(e) = n)

\* The record rec of the page is the loaded record j (its doi and taxid)
\* and carries the result of the enrichment made for entry j.
OwnEnrichment(rec, j) ==
    /\ rec.doi = files[j].doi
    /\ rec.taxid = files[j].taxid
    /\ \A key \in DerivedKeys :
          rec[key] = IF TruthyTaxid(files[j]) /\ key \in DOMAIN enrichLog[j].out
                     THEN enrichLog[j].out[key] ELSE files[j][key]

\* C1: the steps run in the order load, enrichment of every entry in load
\* order, BibTeX for every entry in load order, public/bibtex.json,
\* dist/index.html; the page is not written before the last enrichment has
\* finished, and it embeds the loaded records in load order, each with the
\* result of the enrichment made for its own taxid.
C1_BuildOrder ==
    /\ \A i \in 1..(Len(events) - 1) :
          /\ PhaseRank(events[i]) <= PhaseRank(events[i + 1])
          /\ PhaseRank(events[i]) = PhaseRank(events[i + 1])
                => events[i + 1].idx = events[i].idx + 1
          /\ PhaseRank(events[i]) < PhaseRank(events[i + 1])
                => events[i + 1].idx \in {0, 1}
    /\ pc = "enrich" => \A r \in inflight : r.idx = k
    /\ distHtml.exists =>
          /\ publicBibtex.exists
          /\ inflight = {}
          /\ Len(EventsOfPhase(0)) = 1
          /\ Len(EventsOfPhase(1)) = Len(files)
          /\ Len(EventsOfPhase(2)) = 1
          /\ Len(EventsOfPhase(3)) = Len(files)
          /\ Len(EventsOfPhase(4)) = 1
          /\ \A j \in 1..Len(files) : TruthyTaxid(files[j]) => j \in DOMAIN enrichLog
          /\ Len(distHtml.content) = Len(files)
          /\ \A j \in 1..Len(files) :
                /\ OwnEnrichment(distHtml.content[j], j)
                /\ TruthyTaxid(files[j]) =>
                      /\ enrichLog[j].taxid = files[j].taxid
                      /\ enrichLog[j].out.common_name \in {Null, env.common[files[j].taxid]}
                      /\ enrichLog[j].out.species \in {Null, env.name[files[j].taxid]}

\* Two entries of two different taxa, both enriched, are in the page.
C1_Witness ==
    /\ variant = "build.js"
    /\ distHtml.exists
    /\ Len(files) = 2
    /\ files[1].taxid = 1 /\ files[2].taxid = 2
    /\ distHtml.content[1].common_name = "vernacular1"
    /\ distHtml.content[2].common_name = "vernacular2"

\* The requests of buildBibtexMap, as the state shows them.
C2_State ==
    /\ pc = "bib" =>
          /\ Cardinality(inflight) <= 1
          /\ \A r \in inflight :
                /\ r.idx = k
                /\ r.svc \in {"crossref", "doi.org"}
                /\ r.svc = "doi.org" => calls.idx = k /\ calls.cslAsked
    /\ \A i \in 1..(Len(bibReqs) - 1) :
          /\ bibReqs[i].idx <= bibReqs[i + 1].idx
          /\ bibReqs[i].idx = bibReqs[i + 1].idx =>
                bibReqs[i].svc = "crossref" /\ bibReqs[i + 1].svc = "doi.org"
    /\ \A i \in 1..Len(bibReqs) :
          /\ TruthyDoi(data[bibReqs[i].idx])
          /\ bibReqs[i].svc = "doi.org" =>
                i > 1 /\ bibReqs[i - 1] = [svc |-> "crossref", idx |-> bibReqs[i].idx]

\* The steps that issue a request, as the transition shows them.
C2_Step ==
    bibReqs' # bibReqs =>
      /\ Len(bibReqs') = Len(bibReqs) + 1
      /\ LET r == bibReqs'[Len(bibReqs')] IN
           IF r.svc = "crossref"
           THEN /\ inflight = {}
                /\ \A j \in 1..(r.idx - 1) : TruthyDoi(data[j]) => data[j].doi \in DOMAIN bibMap
                /\ ~calls.settled => calls = NoCall
           ELSE /\ inflight = {Req("crossref", r.idx, data[r.idx].doi, 0)}
                /\ inflight' = {Req("doi.org", r.idx, data[r.idx].doi, 0)}

\* C2: during buildBibtexMap at most one HTTP request is in flight; the
\* requests follow the order of the entries; the request of an entry starts
\* only when fetchBibtex of every earlier entry has settled; and the doi.org
\* request of a call is issued only when its Crossref request has finished.
C2_Sequential == [](C2_State) /\ [][C2_Step]_vars

\* The doi.org request of the second entry is in flight, after both requests
\* of the first entry.
C2_Witness ==
    /\ pc = "bib"
    /\ Len(bibReqs) = 4
    /\ inflight = {Req("doi.org", 2, data[2].doi, 0)}

\* r is s without its leading and trailing white space.
IsTrimOf(r, s) ==
    /\ r # <<>> => ~IsSpace(r[1]) /\ ~IsSpace(r[Len(r)])
    /\ \E a \in 0..Len(s) : \E b \in a..Len(s) :
          /\ r = SubSeq(s, a + 1, b)
          /\ \A i \in 1..a : IsSpace(s[i])
          /\ \A i \in (b + 1)..Len(s) : IsSpace(s[i])

\* C3: fetchBibtex of build.js never rejects; a Crossref body that is not
\* empty and does not start with "<" is returned trimmed and no doi.org
\* request is made; otherwise the doi.org request is made and the result is
\* cslToBibtex of its document, or "" when that request or the conversion
\* fails.
C3_Fallback ==
    variant = "build.js" =>
      /\ pc # "aborted"
      /\ est = "csl" =>
            \/ calls.crossref.err
            \/ calls.crossref.body = <<>>
            \/ Head(calls.crossref.body) = "<"
      /\ calls.settled =>
            /\ bibMap[calls.doi] = calls.result
            /\ IF /\ ~calls.crossref.err
                  /\ calls.crossref.body # <<>>
                  /\ Head(calls.crossref.body) # "<"
               THEN /\ IsTrimOf(calls.result, calls.crossref.body)
                    /\ ~calls.cslAsked
                    /\ [svc |-> "doi.org", idx |-> calls.idx] \notin
                          {bibReqs[i] : i \in 1..Len(bibReqs)}
               ELSE /\ calls.cslAsked
                    /\ [svc |-> "doi.org", idx |-> calls.idx] \in
                          {bibReqs[i] : i \in 1..Len(bibReqs)}
                    /\ calls.result = IF calls.csl.kind = "doc"
                                      THEN CslToBibtex(calls.csl.doc) ELSE <<>>

\* Crossref answered with an HTML page and doi.org with a CSL document.
C3_Witness ==
    /\ variant = "build.js"
    /\ calls.settled
    /\ ~calls.crossref.err
    /\ calls.crossref.body = <<"<", "b">>
    /\ calls.csl.kind = "doc"
    /\ calls.result # <<>>

\* buildBibtexMap has returned.
MapReturned ==
    \/ pc = "bib" /\ est = "idle" /\ k = Len(data) + 1
    \/ pc \in {"html", "copy", "done"}

\* C4: when buildBibtexMap has returned, the keys of the map are exactly the
\* truthy doi values of the entries, whatever the requests answered, and
\* public/bibtex.json holds that map.
C4_MapKeys ==
    /\ MapReturned =>
          DOMAIN bibMap = {files[j].doi : j \in {i \in 1..Len(files) : TruthyDoi(files[i])}}
    /\ publicBibtex.exists => MapReturned /\ publicBibtex.content = bibMap

\* Two entries with the same DOI whose requests all failed: one key.
C4_Witness ==
    /\ publicBibtex.exists
    /\ Len(files) = 2
    /\ files[1].doi = "d1" /\ files[2].doi = "d1"
    /\ DOMAIN publicBibtex.content = {"d1"}
    /\ publicBibtex.content["d1"] = <<>>

\* The keys the enrichment of the running variant may write.
EnrichedKeys ==
    {"species", "order", "class", "common_name", "image"}
        \cup (IF variant = "part_001" THEN {"source"} ELSE {})

\* The record rec carries the hand-written fields of data file j, and every
\* field of it when the file has no truthy taxid.
FrameKept(rec, j) ==
    /\ DOMAIN rec = DOMAIN files[j]
    /\ \A key \in ManualKeys : rec[key] = files[j][key]
    /\ \A key \in DOMAIN files[j] \ EnrichedKeys : rec[key] = files[j][key]
    /\ ~TruthyTaxid(files[j]) => \A key \in DOMAIN files[j] : rec[key] = files[j][key]

\* C5: doi, taxid, individuals, data_url, method, tissue and notes reach the
\* page as the data file has them; the enrichment step writes no key other
\* than species, order, class, common_name, image (and source in part_001);
\* a record without a truthy taxid is embedded as loaded and no taxonomy
\* request is made for it.
C5_Frame ==
    /\ \A j \in 1..Len(data) : FrameKept(data[j], j)
    /\ distHtml.exists =>
          /\ Len(distHtml.content) = Len(files)
          /\ \A j \in 1..Len(files) : FrameKept(distHtml.content[j], j)
    /\ \A t \in taxReqs : TruthyTaxid(files[t[1]])
    /\ \A r \in inflight : r.svc \in {"ncbi", "gbif"} => TruthyTaxid(files[r.idx])

\* C6: for a record with a truthy taxid the species, order and class of the
\* page are the values enrichTaxonomy returned for it in this build; a value
\* written by hand in the data file never reaches the page, also when the
\* enrichment returned null.
C6_Derived ==
    distHtml.exists =>
      \A j \in 1..Len(files) :
        TruthyTaxid(files[j]) =>
          /\ j \in DOMAIN enrichLog
          /\ \A key \in {"species", "order", "class"} :
                /\ distHtml.content[j][key] = enrichLog[j].out[key]
                /\ distHtml.content[j][key] \notin {"handSpecies", "handOrder", "handClass"}

\* A record with hand-written values whose enrichment returned null.
C6_Witness ==
    /\ distHtml.exists
    /\ Len(files) >= 1
    /\ files[1] = FileEntry("d1", 1, TRUE)
    /\ enrichLog[1].out.species = Null
    /\ enrichLog[1].out.class = Null
    /\ distHtml.content[1].species = Null
    /\ distHtml.content[1].class = Null

\* The ancestors of a finished call that were fetched with success.
Fetched(e, rank) ==
    {i \in 1..Len(e.lin) : e.lin[i].rank = rank}

\* The name of the fetched ancestor of that rank that stands last in the
\* lineage array, null when no ancestor of that rank was fetched.
LastFetched(e, rank) ==
    IF Fetched(e, rank) = {} THEN Null
    ELSE e.lin[CHOOSE i \in Fetched(e, rank) : \A j \in Fetched(e, rank) : j <= i].organism_name

\* C7: in build.js and part_002 the enrichment never aborts the build: a
\* call whose main taxon lookup failed returns species, order, class and
\* common_name null; a failed ancestor lookup is passed over and the
\* ancestors that were fetched decide class and order; and as long as the
\* copy into dist/ is not done the build has a next step.
C7_BestEffort ==
    variant \in {"build.js", "part_002"} =>
      /\ pc # "aborted"
      /\ pc # "done" => ENABLED Next
      /\ \A j \in DOMAIN enrichLog :
            LET e == enrichLog[j] IN
              /\ ~e.found.node =>
                    \A key \in {"species", "order", "class", "common_name"} : e.out[key] = Null
              /\ e.out.class = LastFetched(e, "CLASS")
              /\ e.out.order = LastFetched(e, "ORDER")

\* The page is written after one call lost its main lookup and another
\* lost the lookup of its last ancestor and used the two that were fetched.
C7_Witness ==
    /\ variant = "build.js"
    /\ distHtml.exists
    /\ DOMAIN enrichLog = {1, 2}
    /\ ~enrichLog[1].found.node
    /\ Len(enrichLog[2].lin) = 3
    /\ enrichLog[2].lin[3] = NoNode
    /\ enrichLog[2].out.order = "Primates"
    /\ enrichLog[2].out.class = "Mammalia"

\* A GBIF request was made for entry j.
GbifAsked(j) == \E t \in taxReqs : t[1] = j /\ t[2] = "gbif"

\* The bookkeeping of the call for entry j, finished or running.
FoundOf(j) == IF j \in DOMAIN enrichLog THEN enrichLog[j].found ELSE found

NcbiLeftUnset(f) == Falsy(f.ncbiClass) \/ Falsy(f.ncbiOrder)

\* What NCBI found stays, and source names GBIF exactly when it gave a value.
GbifOnlyFills(e) ==
    /\ ~Falsy(e.found.ncbiClass) =>
          e.out.class = e.found.ncbiClass /\ e.found.classBy = "ncbi"
    /\ ~Falsy(e.found.ncbiOrder) =>
          e.out.order = e.found.ncbiOrder /\ e.found.orderBy = "ncbi"
    /\ e.out.source \in {"ncbi", "ncbi+gbif"}
    /\ e.out.source = "ncbi+gbif" <=>
          (e.found.classBy = "gbif" \/ e.found.orderBy = "gbif")

\* C8 as stated: in part_001 GBIF is asked if and only if the NCBI pass left
\* class or order unset; an NCBI value is never replaced; source is
\* "ncbi+gbif" exactly when class or order was taken from GBIF.
C8_Original ==
    variant = "part_001" =>
      /\ \A j \in 1..Len(data) :
            GbifAsked(j) => FoundOf(j).walked /\ NcbiLeftUnset(FoundOf(j))
      /\ \A j \in DOMAIN enrichLog :
            /\ NcbiLeftUnset(enrichLog[j].found) => GbifAsked(j)
            /\ GbifOnlyFills(enrichLog[j])

\* C8 (amended): in part_001 a GBIF request is made if and only if the main
\* taxon node was obtained, it has a non-empty organism_name, and the NCBI
\* pass left class or order unset; an NCBI value is never replaced; source
\* is "ncbi+gbif" exactly when class or order was taken from GBIF.
C8_GbifFallback ==
    variant = "part_001" =>
      /\ \A j \in 1..Len(data) :
            GbifAsked(j) =>
              /\ FoundOf(j).node
              /\ FoundOf(j).walked
              /\ ~Falsy(env.name[data[j].taxid])
              /\ NcbiLeftUnset(FoundOf(j))
      /\ \A j \in DOMAIN enrichLog :
            /\ (/\ enrichLog[j].found.node
                /\ ~Falsy(env.name[data[j].taxid])
                /\ NcbiLeftUnset(enrichLog[j].found)) => GbifAsked(j)
            /\ GbifOnlyFills(enrichLog[j])

\* NCBI gave the class, GBIF was asked, answered with a class and an order,
\* and only the order was taken.
C8_Witness ==
    /\ variant = "part_001"
    /\ 1 \in DOMAIN enrichLog
    /\ GbifAsked(1)
    /\ enrichLog[1].found.ncbiClass = "Mammalia"
    /\ enrichLog[1].found.ncbiOrder = Null
    /\ enrichLog[1].out.class = "Mammalia"
    /\ enrichLog[1].out.order = "GbifOrder"
    /\ enrichLog[1].out.source = "ncbi+gbif"

\* The text typed into the species box, trimmed.
SpeciesNeedle == Trim(page.fSpecies)

\* The needle occurs in the species of e, letter case apart.
SpeciesMatch(e) ==
    /\ e.species # NullText
    /\ \E off \in 0..(Len(e.species) - Len(SpeciesNeedle)) :
          \A j \in 1..Len(SpeciesNeedle) :
              ToLower(e.species[off + j]) = ToLower(SpeciesNeedle[j])

\* Entry e satisfies every filter that is active.
Satisfies(e) ==
    /\ page.fMethod # {} => e.method \in page.fMethod
    /\ page.fOrder # {} => e.order \in page.fOrder
    /\ page.fClass # {} => e.class \in page.fClass
    /\ page.fTissue # {} => e.tissue \in page.fTissue
    /\ ~ParseInt(page.fMinInd).nan /\ ParseInt(page.fMinInd).n > 0 =>
          (IF ParseInt(e.individuals).nan THEN 0 ELSE ParseInt(e.individuals).n)
              >= ParseInt(page.fMinInd).n
    /\ SpeciesNeedle # <<>> => SpeciesMatch(e)

NoFilterActive ==
    /\ page.fMethod = {} /\ page.fOrder = {} /\ page.fClass = {} /\ page.fTissue = {}
    /\ ParseInt(page.fMinInd).nan \/ ParseInt(page.fMinInd).n <= 0
    /\ SpeciesNeedle = <<>>

\* C9: applyFilters returns exactly the entries that satisfy every active
\* filter: a multi-select is active when an option is selected and asks for
\* the entry's value among the selected ones; the minimum is active when it
\* parses to more than 0, an individuals text that does not parse counting
\* as 0; the species text is active when not blank and asks for a
\* case-insensitive substring, which a null species never has; with no
\* filter active every entry is returned.
C9_ApplyFilters ==
    page.rendered =>
      /\ page.list = SelectSeq(page.entries, Satisfies)
      /\ NoFilterActive => page.list = page.entries
      /\ SpeciesNeedle # <<>> =>
            \A i \in 1..Len(page.list) : page.list[i].species # NullText

\* The species box holds " A" and the minimum 3: of an entry with a null
\* species and one with species "b Aa" and 3 individuals, the second is shown.
C9_Witness ==
    /\ page.rendered
    /\ page.fSpecies = <<" ", "A">>
    /\ page.fMinInd = <<"3">>
    /\ Len(page.entries) = 2
    /\ page.entries[1].species = NullText
    /\ page.entries[2].individuals = <<"3">>
    /\ page.list = <<page.entries[2]>>

\* The selected DOIs that have a non-empty value in the map, in the order
\* they were added to the selection.
ExportedDois ==
    SelectSeq(page.selected, LAMBDA d : d \in DOMAIN page.served /\ page.served[d] # <<>>)

\* Their map values joined by a blank line.
ExportedText == JoinBlank([n \in 1..Len(ExportedDois) |-> page.served[ExportedDois[n]]])

\* What the downloadBib calls that ran their body in a step did.
C10_Step ==
    LET n == page'.ran - page.ran
        made == IF n > 0 /\ ExportedDois # <<>> THEN n ELSE 0
    IN /\ page'.downloads = page.downloads \o [i \in 1..made |-> ExportedText]
       /\ page'.clicks # page.clicks \/ n > 0 => page'.selected = page.selected
       /\ n > 0 => page'.bibMapPromise = "resolved"

\* C10: a downloadBib call makes no file when the selection is empty or no
\* selected DOI has a non-empty value in the map (or the map could not be
\* loaded); otherwise it makes exactly one file, the non-empty map values of
\* the selected DOIs in the order they were added to the selection, joined
\* by a blank line; the selection is left as it was.
C10_Download ==
    /\ [][C10_Step]_vars
    /\ [](page.ran + page.waiting <= page.clicks /\ Len(page.downloads) <= page.ran)

\* The second card was selected before the first: one file, the citation of
\* d2, a blank line, the citation of d1.
C10_Witness ==
    /\ page.selected = <<"d2", "d1">>
    /\ page.ran = 1
    /\ page.downloads = << <<"@2", "\n\n", "@1">> >>

\* The files of the listing that readAllData takes: a .yaml, .yml or .json
\* extension in any letter case, and a content that parses.
Taken == SelectSeq(env.dir.listing,
                   LAMBDA f : f.parses /\ f.ext \in {".yaml", ".YAML", ".yml", ".YML",
                                                        ".json", ".JSON"})

\* C11: readAllData returns an empty list when data/ does not exist, passes
\* over the files with another extension and the files that fail to parse,
\* returns one element per parsed file in listing order, and every element
\* is an object on which entry.taxid and entry.doi can be read, so that the
\* script is not left by an error.
C11_ReadAllData ==
    pc # "load" =>
      /\ ~env.dir.exists => data = <<>>
      /\ env.dir.exists =>
            /\ Len(data) = Len(Taken)
            /\ \A i \in 1..Len(data) : data[i] = Taken[i].value
      /\ \A i \in 1..Len(data) : IsObject(data[i])
      /\ pc # "aborted"

\* The lineage array NCBI holds for the taxon of the finished call e.
LineageOf(e) == env.lineage[e.taxid]

\* The positions of the lineage whose lookup gave a node of that rank.
Succeeded(e, rank) == {i \in 1..Len(e.lin) : e.lin[i] # NoNode /\ e.lin[i].rank = rank}

\* The organism_name at the last such position, null when there is none.
LastInLineage(e, rank) ==
    IF Succeeded(e, rank) = {} THEN Null
    ELSE AncNode(LineageOf(e)[CHOOSE i \in Succeeded(e, rank) :
                                  \A j \in Succeeded(e, rank) : j <= i]).organism_name

\* C12: in build.js the lineage lookups are in flight together, and whatever
\* the order of their answers the settled results stand in lineage order,
\* and class (order) is the organism_name of the last ancestor of the
\* lineage array whose lookup succeeded with rank CLASS (ORDER), null when
\* there is none.
C12_Deterministic ==
    variant = "build.js" =>
      /\ est = "lineage" =>
            /\ Len(linRes) = Len(env.lineage[data[k].taxid])
            /\ inflight = {Req("ncbi", k, env.lineage[data[k].taxid][i], i) :
                              i \in {j \in 1..Len(linRes) : linRes[j] = Pending}}
      /\ \A n \in DOMAIN enrichLog :
            LET e == enrichLog[n] IN
              e.lin # <<>> =>
                /\ Len(e.lin) = Len(LineageOf(e))
                /\ \A i \in 1..Len(e.lin) :
                      e.lin[i] \in {NoNode, Answer("ok", LineageOf(e)[i])}
                /\ e.out.class = LastInLineage(e, "CLASS")
                /\ e.out.order = LastInLineage(e, "ORDER")

\* Mammalia and Aves were fetched, the lookup of the class that stands last
\* failed: Aves is returned.
C12_Witness ==
    /\ variant = "build.js"
    /\ 1 \in DOMAIN enrichLog
    /\ env.lineage[1] = <<20, 23, 5>>
    /\ enrichLog[1].lin = <<Answer("ok", 20), Answer("ok", 23), NoNode>>
    /\ enrichLog[1].out.class = "Aves"
    /\ enrichLog[1].out.order = Null

Walking == variant \in {"part_001", "part_002"}

\* The positions (1-based) of the lineage array the loop can reach: all but
\* the last one, and only ids of 10 and more.
Reachable(ids) == {i \in 1..(Len(ids) - 1) : ids[i] >= 10}

\* Position i answered with a node of that rank and that name.
Supplies(e, i, rank, name) ==
    /\ e.lin[i] = Answer("ok", LineageOf(e)[i])
    /\ LowerRank(e.lin[i].rank) = rank
    /\ e.lin[i].organism_name = name

\* The ancestors (ids other than the queried one) of that rank.
AncestorsOfRank(e, rank) ==
    {i \in 1..Len(LineageOf(e)) :
        /\ LineageOf(e)[i] # e.taxid
        /\ LowerRank(TaxonNode(LineageOf(e)[i]).rank) = rank}

Met(e, rank) ==
    {i \in Reachable(LineageOf(e)) :
        e.lin[i] \notin {Pending, NoNode} /\ LowerRank(e.lin[i].rank) = rank}

Highest(S) == CHOOSE i \in S : \A j \in S : j <= i
Lowest(S) == CHOOSE i \in S : \A j \in S : i <= j

\* What a finished walk of part_002 holds: the class and the order met
\* nearest the species, and nothing asked for beyond the point where both
\* were held.
NearestKept(e) ==
    e.found.walked =>
      /\ e.found.class = IF Met(e, "class") = {} THEN Null
                         ELSE e.lin[Highest(Met(e, "class"))].organism_name
      /\ e.found.order = IF Met(e, "order") = {} THEN Null
                         ELSE e.lin[Highest(Met(e, "order"))].organism_name
      /\ (Met(e, "class") # {} /\ Met(e, "order") # {}) =>
            \A i \in 1..Len(e.lin) :
                (i < Highest(Met(e, "class")) /\ i < Highest(Met(e, "order"))) =>
                   e.lin[i] = Pending

\* The bookkeeping after a step of the call for entry k: the one returned
\* when the step ends the call.
FoundAfter == IF k' = k THEN found' ELSE enrichLog'[k].found

C14_Step ==
    (variant = "part_002" /\ pc = "enrich") =>
      /\ (est = "walk" /\ est' = "walk") => li' < li
      /\ est = "walk" =>
            /\ ~Falsy(found.class) => FoundAfter.class = found.class
            /\ ~Falsy(found.order) => FoundAfter.order = found.order
            /\ (~Falsy(FoundAfter.class) /\ ~Falsy(FoundAfter.order)) =>
                  /\ taxReqs' = taxReqs
                  /\ inflight' = {}
                  /\ k' = k + 1
      /\ \A n \in DOMAIN enrichLog' : NearestKept(enrichLog'[n])

\* C14: in part_002 the walk moves from the species end toward the root, a
\* class or order once held is never replaced, the step that makes both held
\* ends the call without a further lineage request, and the finished call
\* holds the class and the order nearest the species.
C14_FirstKept == [][C14_Step]_vars

\* Aves and Primates are met first, and Mammalia nearer the root is not
\* asked for.
C14_Witness ==
    /\ variant = "part_002"
    /\ 1 \in DOMAIN enrichLog
    /\ env.lineage[1] = <<20, 21, 23, 21>>
    /\ enrichLog[1].lin = <<Pending, Answer("ok", 21), Answer("ok", 23), Pending>>
    /\ enrichLog[1].out.class = "Aves"
    /\ enrichLog[1].out.order = "Primates"
    /\ <<1, "ncbi", 20>> \notin taxReqs

\* The lineage results after a step of the call for entry k.
LinAfter == IF k' = k THEN linRes' ELSE enrichLog'[k].lin

\* The step hands the node asked for to enrichTaxonomy.
NodeReturned ==
    IF est = "main" THEN FoundAfter.node
    ELSE LinAfter[li + 1] = Answer("ok", env.lineage[data[k].taxid][li + 1])

\* The step hands null to enrichTaxonomy.
NullReturned ==
    IF est \in {"main", "mainWait"}
    THEN k' = k + 1 /\ ~enrichLog'[k].found.node /\ enrichLog'[k].out = OutInit(variant)
    ELSE LinAfter[li + 1] = NoNode

\* The step lets an exception leave fetchTaxonMinimal: nothing catches the
\* one of the main taxon, the loop of the walk catches the others.
Rethrown ==
    IF est = "main" THEN pc' = "aborted" /\ k' = k
    ELSE LinAfter[li + 1] = NoNode /\ est' # "walkWait"

\* The pending request of the call: the taxon asked for, and for which
\* position.
TaxonRequest ==
    IF est \in {"main", "mainWait"} THEN Req("ncbi", k, data[k].taxid, 0)
    ELSE Req("ncbi", k, env.lineage[data[k].taxid][li + 1], li + 1)

C15_Step ==
    (variant = "part_001" /\ pc = "enrich") =>
      /\ est \in {"main", "walk"} =>
            /\ att \in 0..(TaxonAttempts - 1)
            /\ inflight = {TaxonRequest}
            /\ \/ NodeReturned
               \/ /\ est' = (IF est = "main" THEN "mainWait" ELSE "walkWait")
                  /\ found'.timer = 500 * (att + 1)
                  /\ att' = att /\ inflight' = {} /\ taxReqs' = taxReqs /\ pc' = pc
               \/ att = TaxonAttempts - 1 /\ Rethrown
      /\ est \in {"mainWait", "walkWait"} =>
            /\ att \in 0..(TaxonAttempts - 1)
            /\ found.timer = 500 * (att + 1)
            /\ pc' = pc
            /\ IF att + 1 < TaxonAttempts
               THEN /\ est' = (IF est = "mainWait" THEN "main" ELSE "walk")
                    /\ att' = att + 1
                    /\ inflight' = {TaxonRequest}
                    /\ found'.timer = 0
               ELSE NullReturned

\* C15: fetchTaxonMinimal of part_001 makes at most TaxonAttempts requests
\* for a taxon; an attempt ends with the node returned, or with a wait of
\* 500 * (i + 1) ms, or, for the last attempt only, with its error thrown
\* on; after the wait the same request is made again, or null is returned
\* when that was the last attempt.
C15_Retry == [][C15_Step]_vars

\* The third attempt for the main taxon did not succeed either, after waits
\* of 500 and 1000 ms: the 1500 ms wait runs before null is returned.
C15_Witness ==
    /\ variant = "part_001"
    /\ pc = "enrich"
    /\ est = "mainWait"
    /\ att = TaxonAttempts - 1
    /\ found.timer = 1500

\* What NCBI gave for the call e: species and common name of the main taxon
\* when it was obtained, the class and order of the walk, null otherwise.
NcbiPart(e) ==
    /\ e.out.species = (IF e.found.node THEN JsOr(env.name[e.taxid], Null) ELSE Null)
    /\ e.out.common_name = (IF e.found.node THEN JsOr(env.common[e.taxid], Null) ELSE Null)
    /\ ~Falsy(e.found.ncbiClass) => e.out.class = e.found.ncbiClass
    /\ ~Falsy(e.found.ncbiOrder) => e.out.order = e.found.ncbiOrder

\* C16: in part_001 no outcome of the NCBI and GBIF requests stops the build:
\* every enrichTaxonomy call returns with what NCBI gave, the loop goes on
\* to the next entry, and a build that is not finished can take a step.
C16_KeepsGoing ==
    variant = "part_001" =>
      /\ pc # "aborted"
      /\ pc # "done" => ENABLED Next
      /\ pc = "done" => distHtml.exists
      /\ \A n \in DOMAIN enrichLog : NcbiPart(enrichLog[n])

\* The positions the loops can reach that hold an ancestor of that rank.
OfRank(ids, rank) == {i \in Reachable(ids) : LowerRank(TaxonNode(ids[i]).rank) = rank}

NearestSpecies(ids, rank) ==
    IF OfRank(ids, rank) = {} THEN Null
    ELSE TaxonNode(ids[Highest(OfRank(ids, rank))]).organism_name

NearestRoot(ids, rank) ==
    IF OfRank(ids, rank) = {} THEN Null
    ELSE TaxonNode(ids[Lowest(OfRank(ids, rank))]).organism_name

\* The walk of the call e ran and none of its lookups failed.
AllSucceeded(e) ==
    /\ e.found.walked
    /\ \A i \in 1..Len(e.lin) : e.lin[i] # NoNode

\* C17 as stated: with every request succeeding, the NCBI pass of part_001
\* and the walk of part_002 select the same class and order for a lineage,
\* the ones the walk of part_002 meets first, also when the lineage holds
\* several ancestors of one rank.
C17_Original ==
    Walking =>
      \A n \in DOMAIN enrichLog :
        LET e == enrichLog[n] IN
          AllSucceeded(e) =>
            /\ e.found.ncbiClass = NearestSpecies(LineageOf(e), "class")
            /\ e.found.ncbiOrder = NearestSpecies(LineageOf(e), "order")

\* C17 (amended): with every request succeeding, part_002 selects the class
\* and the order nearest the species and part_001 the ones nearest the root;
\* the two agree for a rank when the lineage holds, among the elements the
\* loops visit, at most one ancestor of that rank.
C17_Selection ==
    Walking =>
      \A n \in DOMAIN enrichLog :
        LET e == enrichLog[n]
            ids == LineageOf(e)
            Selected(rank) == IF variant = "part_002" THEN NearestSpecies(ids, rank)
                              ELSE NearestRoot(ids, rank)
        IN AllSucceeded(e) =>
             /\ e.found.ncbiClass = Selected("class")
             /\ e.found.ncbiOrder = Selected("order")
             /\ Cardinality(OfRank(ids, "class")) <= 1 =>
                   e.found.ncbiClass = NearestSpecies(ids, "class")
             /\ Cardinality(OfRank(ids, "order")) <= 1 =>
                   e.found.ncbiOrder = NearestSpecies(ids, "order")

\* Two classes in the lineage: part_001 reports Mammalia, the one nearest
\* the root, where part_002 keeps Aves.
C17_Witness ==
    /\ variant = "part_001"
    /\ 1 \in DOMAIN enrichLog
    /\ env.lineage[1] = <<20, 21, 23, 21>>
    /\ AllSucceeded(enrichLog[1])
    /\ enrichLog[1].lin = <<Answer("ok", 20), Answer("ok", 21), Answer("ok", 23), Pending>>
    /\ enrichLog[1].found.ncbiClass = "Mammalia"
    /\ NearestSpecies(env.lineage[1], "class") = "Aves"

\* The text holds the pieces of part one after the other.
Contains(text, part) ==
    \E a \in 0..(Len(text) - Len(part)) : SubSeq(text, a + 1, a + Len(part)) = part

\* A CSL document with DOI, title and author.
FullCsl(doc) == doc.DOI # <<>> /\ ~Falsy(doc.title) /\ doc.author # <<>>

\* C18: in every variant, when Crossref gave nothing usable and doi.org
\* answered with a CSL document that has DOI, title and author, fetchBibtex
\* returns cslToBibtex of that document, a text holding its DOI, title and
\* authors, and the doi.org request went out with the header
\* Accept: application/vnd.citationstyles.csl+json.
C18_CslCitation ==
    (calls.cslAsked /\ calls.settled /\ calls.csl.kind = "doc" /\ FullCsl(calls.csl.doc)) =>
      /\ calls.result = CslToBibtex(calls.csl.doc)
      /\ Contains(calls.result, calls.csl.doc.DOI)
      /\ Contains(calls.result, <<calls.csl.doc.title>>)
      /\ \A n \in 1..Len(calls.csl.doc.author) :
            Contains(calls.result, AuthorText(calls.csl.doc.author[n]))
      /\ calls.accept = "application/vnd.citationstyles.csl+json"

\* The value of the last fetchBibtex call came from the Crossref body.
FromCrossref == calls.settled /\ ~calls.cslAsked /\ ~calls.crossref.err

\* C19: a value stored in the BibTeX map from a Crossref answer is the empty
\* string or the text of an answer with a 2xx status that is not an HTML
\* page: the body of an error response and an HTML body that follows white
\* space are never stored.
C19_OnlyCitations ==
    (FromCrossref /\ calls.doi \in DOMAIN bibMap /\ bibMap[calls.doi] # <<>>) =>
      /\ calls.crossref.status \in 200..299
      /\ ~StartsWithLt(TrimStart(calls.crossref.body))
      /\ ~StartsWithLt(bibMap[calls.doi])

\* C20: public/bibtex.json holds the map of this run from its write on,
\* dist/public/bibtex.json is not touched before that, and after the copy it
\* holds the map of this run, with as many keys as the final log reports,
\* whatever an earlier run left in the two places.
C20_CurrentMap ==
    /\ pc = "bib" => distBibtex \in {NoFile, File(StaleMap)}
    /\ pc \in {"html", "copy", "done"} =>
          /\ publicBibtex = File(bibMap)
          /\ Event("writeBibtexJson", 0) \in {events[i] : i \in 1..Len(events)}
    /\ pc \in {"html", "copy"} => distBibtex \in {NoFile, File(StaleMap)}
    /\ pc = "done" =>
          /\ distBibtex = File(bibMap)
          /\ distBibtex # File(StaleMap)
          /\ Cardinality(DOMAIN distBibtex.content) = BibtexEntriesLogged
          /\ DOMAIN distBibtex.content = {data[j].doi : j \in {i \in 1..Len(data) : TruthyDoi(data[i])}}
                                            \ (IF variant = "part_000" /\ calls.crossref.err /\ calls.settled
                                                THEN {calls.doi} ELSE {})

\* The build ended with the one-key map of this run in dist/public, whose
\* key is not the one an earlier run left there.
C20_Witness ==
    /\ pc = "done"
    /\ Event("copyPublic", 0) \in {events[i] : i \in 1..Len(events)}
    /\ distBibtex.exists
    /\ DOMAIN distBibtex.content = {"d1"}
    /\ distBibtex.content["d1"] = <<"b", "b">>
    /\ BibtexEntriesLogged = 1
    /\ DOMAIN distBibtex.content # DOMAIN StaleMap

====
